SPECIFICATION PartSpec
CONSTANTS
  Accounts = {a1, a2, a3}
  Currencies = {PLN, EUR}
  Imported = {a3}
  Transfers = {t1}
  Items = {i1}
  Loans = {l1}
  Requests = {r1, r2}
  PLN = PLN
  None = None
  Transactions = {1, 2, 3}
  MonthLength = 3
  DueDays = {1}
  Grace = 1
  Horizon = 2
  MaxDay = 4
  MaxAmount = 2
  RateDays = {4, 5, 6, 7, 8}
  Weekend = {6, 7}
  Rates = {3, 17}
  ManualRates = {1, 2, 3, 4, 5, 6, 7, 8, 9, 10, 11, 12, 13, 14, 15, 16, 17, 18, 19, 20}
  Scale = 4
  FromAmounts = {1, 2, 3, 4, 5, 6, 7, 8, 9, 10, 11, 12, 13, 14, 15, 16, 17, 18, 19, 20, 21, 22, 23, 24, 25, 26, 27, 28, 29, 30}
SYMMETRY Symmetry
INVARIANTS
  PostingCurrencyMatches
  ConfirmedOnce
  NotCountedTwice
  ExchangeBooked
PROPERTIES
  BookedOnOpenAccounts
CHECK_DEADLOCK FALSE
