------------------------------ MODULE ByteStore ------------------------------
(***************************************************************************)
(* What the files and functions over the DDR promise their callers: a      *)
(* store of bytes on which every read and every write of /mem takes effect *)
(* at one moment between its call and its return.  A write that fails      *)
(* leaves anything in its own place and nothing elsewhere.  What a         *)
(* spoiling write does to the bytes is open, not when it does it.  A block *)
(* write of a program without ficfuse goes on behind a block that failed,  *)
(* so it only promises to touch its own place, in any number of steps.     *)
(***************************************************************************)
EXTENDS Naturals, Sequences

CONSTANTS
    Clients,
    Requests,   \* [kind, offset, size]
    Spoiling,   \* the writes of whose bytes nothing is promised
    NoRequest,
    Addresses,
    Initial     \* the bytes at the start

VARIABLES
    content,    \* the bytes of the store
    status,     \* of a client: "idle", "asked" or "answered"
    req,        \* its request
    answer,     \* the bytes a read has got
    broken      \* nothing is promised any more

vars == <<content, status, req, answer, broken>>

Init ==
    /\ content = Initial
    /\ status = [w \in Clients |-> "idle"]
    /\ req = [w \in Clients |-> NoRequest]
    /\ answer = [w \in Clients |-> <<>>]
    /\ broken = FALSE

\* Where a request writes, the store with all its bytes there, and a store that is
\* the same elsewhere.
Place(w) ==
    {x \in Addresses : req[w].offset <= x /\ x < req[w].offset + req[w].size}
With(w) ==
    [x \in Addresses |->
        IF x \in Place(w) THEN <<w, x - req[w].offset>> ELSE content[x]]
KeptElsewhere(w) ==
    content' = [x \in Addresses |-> IF x \in Place(w) THEN content'[x] ELSE content[x]]

Bytes(w) == [i \in 1..req[w].size |-> content[req[w].offset + i - 1]]

Becomes(w, s) == status[w] = "asked" /\ status' = [status EXCEPT ![w] = s]

\* A request of /mem that is in range, or any other.
Ask(w, r) ==
    /\ status[w] = "idle"
    /\ status' = [status EXCEPT ![w] = "asked"]
    /\ req' = [req EXCEPT ![w] = r]
    /\ UNCHANGED <<content, answer>>

Write(w) ==
    /\ Becomes(w, "answered") /\ req[w].kind = "write"
    /\ req[w] \in Spoiling \/ content' = With(w)
    /\ UNCHANGED <<req, answer>>

Read(w) ==
    /\ Becomes(w, "answered") /\ req[w].kind = "read"
    /\ answer' = [answer EXCEPT ![w] = Bytes(w)]
    /\ UNCHANGED <<req, content>>

\* A block of a program without ficfuse, also one that failed.
WriteBlock(w) ==
    /\ \E s \in {"asked", "answered"} : Becomes(w, s)
    /\ req[w].kind = "ddr_write"
    /\ KeptElsewhere(w)
    /\ UNCHANGED <<req, answer>>

\* What has no place in the store.
Other(w) ==
    /\ Becomes(w, "answered") /\ req[w].kind \notin {"read", "write", "ddr_write"}
    /\ UNCHANGED <<req, content, answer>>

Forget(w) == req' = [req EXCEPT ![w] = NoRequest] /\ answer' = [answer EXCEPT ![w] = <<>>]

\* The request fails, or its client dies.
Fail(w) ==
    /\ Becomes(w, "idle")
    /\ \/ content' = content \/ req[w] \in Spoiling
       \/ req[w].kind \in {"write", "ddr_write"} /\ KeptElsewhere(w)
    /\ Forget(w)

Return(w) ==
    /\ status[w] = "answered"
    /\ status' = [status EXCEPT ![w] = "idle"]
    /\ Forget(w)
    /\ UNCHANGED content

Next ==
    \E w \in Clients :
        \/ \E r \in Requests : Ask(w, r)
        \/ Write(w) \/ Read(w) \/ WriteBlock(w) \/ Other(w) \/ Fail(w) \/ Return(w)

\* A breach of the lock protocol ends the promise.
Spec == Init /\ [][broken' \/ (broken' = broken /\ Next)]_vars
=============================================================================
