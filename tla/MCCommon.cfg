\* Strings with colliding hashes, and an arena of blocks of three or four bytes.
SPECIFICATION Spec
CONSTANTS
  NULL = NULL
  Names = {"s1", "s2"}
  Texts <- Words
  Hash <- Weak
  ToLower <- Lower
  Addresses = {1, 2, 3}
  Alignment = 2
  WordSize = 32
  AddressSpace = 18
  BlockSizes = {3, 4}
  Sizes = {1, 3, 30, 31}
  MaxHanded = 3
  CharModulus = 4
  Modulus = 8
  LongModulus = 64
  Halves <- Around
  MinusZero = MinusZero
  NaN = NaN
  Objects <- Boxed
  StringHash <- Weak
INVARIANTS ArenaSound HeapIsOwned ComparisonsAgree ValuesAgree
