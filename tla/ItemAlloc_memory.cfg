\* Classes of 16, 24 and 48 bytes; five blocks; the limit admits 96 bytes.
\* The sizes fill a class exactly, miss it by one, and exceed the last class;
\* of seven bits, the last two are cut to 0 and 1.
SPECIFICATION MemorySpec
CONSTANTS
    Buffers = {b1, b2, b3, b4, b5}
    HeaderSize = 8
    item_size_min = 4
    item_size_max = 40
    FactorNum = 3
    FactorDen = 2
    FreeBytes = 48
    FreeCountMax = 2
    ClassIdMax = 6
    mem_limit_ = 96
    SizeMod = 128
    Sizes = {8, 9, 16, 40, 41, 120, 121}
    NULL = NULL
SYMMETRY BufferSymmetry
INVARIANTS
    ClassIsTightest
    MemoryExact
    OneOwner
