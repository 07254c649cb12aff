CONSTANTS
    UsizeMax = 2147483647
    MaxHeaders = 64
    PayloadBytes = {120, 121}
    ChunkLens = {1, 2, 11}
    MaxChunks = 2
    ReqHeadLens = {40}
    ResHeadLens = {40}
    Builds = {"debug", "release"}
SPECIFICATION Spec
INVARIANT ChunkedDecodeExact
