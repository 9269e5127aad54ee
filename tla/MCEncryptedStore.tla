-------------------------- MODULE MCEncryptedStore --------------------------
(***************************************************************************)
(* Two threads of one process, one of which also reads, and a third thread *)
(* of another process, with another passphrase.                            *)
(***************************************************************************)
EXTENDS EncryptedStore, TLC

CONSTANTS t1, t2, t3, p1, p2, mine, theirs, app, other, a, b, v, surrogate

MCThreads == {t1, t2, t3}
MCProcOf == (t1 :> p1) @@ (t2 :> p1) @@ (t3 :> p2)
MCPassOf == (t1 :> mine) @@ (t2 :> mine) @@ (t3 :> theirs)

SetCall(n, w) == [name |-> n, value |-> w]
UnsetCall(n) == [name |-> n, value |-> None]

MCRequestsOf ==
    (t1 :> {SetCall(a, v)}) @@ (t2 :> {UnsetCall(a)})
        @@ (t3 :> {SetCall(b, v), SetCall(b, surrogate)})

Sealed(h, c, text) ==
    [header |-> h, key |-> Key(mine, c), aad |-> h, text |-> text]

Header(n, c, x) == [v |-> n, cost |-> c, app |-> x]

Excessive == [t |-> 17, m |-> 0, p |-> 4]

OneLane == [t |-> 1, m |-> 8 * 16, p |-> 1]

SomeMap == (a :> None) @@ (b :> v)

\* No file, one cut short, an own one, an own one from before the header
\* named the application, a newer one, one of version 0, one of another
\* application, one with costs out of bounds, one whose costs ask for one lane
\* only, one whose header was changed, one with a text that does not parse.
MCInitBlobs ==
    { Absent, Garbled,
      Sealed(NewHeader, WriteCost, SomeMap),
      Sealed(Header(1, WriteCost, None), WriteCost, SomeMap),
      Sealed(Header(2, WriteCost, app), Excessive, SomeMap),
      Sealed(Header(0, WriteCost, app), WriteCost, SomeMap),
      Sealed(Header(1, WriteCost, other), WriteCost, SomeMap),
      Sealed(Header(1, Excessive, app), Excessive, SomeMap),
      Sealed(Header(1, OneLane, app), OneLane, SomeMap),
      [Sealed(NewHeader, WriteCost, SomeMap)
          EXCEPT !.aad = Header(1, WriteCost, None)],
      Sealed(NewHeader, WriteCost, Malformed) }

MCFaults == FaultKinds \ {"oslock"}
MCBuilds == (p1 :> BuildKinds) @@ (p2 :> {"full"})
=============================================================================
