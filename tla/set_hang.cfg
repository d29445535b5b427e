SPECIFICATION SetSpec
CONSTANTS
  Members = {1, 2, 3, 4, 5, 6, 7, 8, 9}
  MemberHash <- MCMemberHash
  Vacant = Vacant
  SetLiterals <- MCLiterals
  MaxSetCapacity = 8
PROPERTIES CallsReturn
