CONSTANTS
    f1 = f1
    f2 = f2
    c1 = c1
    ip1 = ip1
    Flows = {f1, f2}
    Addr <- MCAddrDistinct
    Protocols = {"Http", "Tls"}
    Filter <- MCFilter
    Cap = 2
    MaxWrites = 2
    HttpOutcomes = {"ok", "error", "panic"}
SPECIFICATION Spec
\* Once every flow has ended the consumer blocks in recv() for good: the
\* pipeline really stops there, and FlowsFinish rules out any other stop.
CHECK_DEADLOCK FALSE
INVARIANT OpaqueArtifactHasCiphertext
