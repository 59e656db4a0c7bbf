\* Keys of one and two bytes in the same trie, as for blacklist prefixes of
\* different lengths.
CONSTANTS
    ByteBits = 2
    KeyLens = {1, 2}
SPECIFICATION Spec
INVARIANT NoNullDereference
