\* Keys of one length, as for a trie holding addresses of one family.
CONSTANTS
    ByteBits = 3
    KeyLens = {1}
SPECIFICATION Spec
INVARIANT ContainsIsMembership
