-------------------------- MODULE MCStandardHost --------------------------
(* Small instances of StandardHost.                                        *)
EXTENDS StandardHost

Call(kind, bytes, lf) == [kind |-> kind, bytes |-> bytes, lf |-> lf]
AllCalls ==
    {Call("read", 1, FALSE), Call("write", 2, TRUE), Call("int", 1, FALSE), Call("bytes", 3, FALSE)}
=============================================================================
