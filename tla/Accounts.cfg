CONSTANTS
  r1 = r1
  r2 = r2
  mail = mail
  other = other
  phone = phone
  g1 = g1
  g2 = g2
  f1 = f1
  Requests = {r1, r2}
  Emails = {mail, other}
  Phones = {phone}
  Subjects = {g1, g2, f1}
  Provider <- ProviderValue
  MaxUsers = 2
SPECIFICATION Spec
INVARIANTS
  TypeOK
  
  SocialEntersLinked
CHECK_DEADLOCK FALSE
