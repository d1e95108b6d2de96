CONSTANTS
  Cap = 2
  Ids = {0, 1, 2, 3}
  Specs <- MCSpecs
  RestSpecs <- MCRestSpecs
  MinGuests = 2
  BatchCap = 2
  Batches <- MCBatches
SPECIFICATION TablesSpec
INVARIANTS TableSound GuestsConserved
PROPERTY FailoverCompletes
