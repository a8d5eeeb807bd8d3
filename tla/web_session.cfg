\* Two registrations; a tab among others; two logins.
SPECIFICATION FairSpec
CONSTANTS
  r1 = r1
  r2 = r2
  Requests = {r1, r2}
  Forms <- MCForms
  Emails <- MCEmails
  TeamNames <- MCTeamNames
  normal <- MCNormal
  slugify <- MCSlugify
  NoUser = NoUser
  MaxLogins = 2
  MaxFetches = 1
INVARIANTS
  TypeOK
  OneIsAccepted
  ConflictNeedsOverlap
  ShownUserActs
PROPERTIES
  RegistrationEnds
  TabSettles
  ImplementsRegistry
