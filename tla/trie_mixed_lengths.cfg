\* Keys of one and two bytes in the same trie.
CONSTANTS
    ByteBits = 2
    KeyLens = {1, 2}
SPECIFICATION Spec
INVARIANT ContainsIsMembership
