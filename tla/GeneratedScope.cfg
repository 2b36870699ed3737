\* One client with two fiscal years, at most one restart and two resets.
CONSTANTS
  Clients = {"c1"}
  Years <- MCYears
  AddresseeCount = 2
  MaxListed = 6
  Count <- MCCount
  Value <- MCValue
  MaxRestarts = 1
  None = None
  Idle = Idle
SPECIFICATION Spec
INVARIANTS TypeOK ReferencesInScope YearsReferToTheirTerms ItemsHavePartners RegeneratedAlike
