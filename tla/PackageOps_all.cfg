SPECIFICATION FairSpec
CONSTANTS
  Jobs = {j1, j2}
  cardA = cardA
  CardA = CardA
  cardB = cardB
  keyA = keyA
  keyB = keyB
  Cards <- MCCards
  Keys <- MCKeys
  normalize <- MCnormalize
  MaxCancels = 2
  Kinds = {"card_op", "move", "batch_archive", "batch_items", "restore", "uninstall"}
INVARIANTS TypeOK GuardedNeverShare BatchAlone KeysHaveOwners BatchFindsCardsFree
PROPERTIES Released
