----------------------------- MODULE LineMemory -----------------------------
(***************************************************************************)
(* What the coherent memory system promises its cores: one memory of lines *)
(* on which every request takes effect atomically, at some point between   *)
(* its acceptance and its completion.  A core has one request at a time.   *)
(* It promises nothing about caches, snoops or flushes.                    *)
(***************************************************************************)
CONSTANTS
    Cores,        \* the requesters
    Requests,     \* requests: write, line, wdata, be
    NoRequest,    \* a core that waits for nothing
    Nothing,      \* no line has been returned
    Memory,       \* possible contents of the memory
    Merge(_, _, _) \* the line a store with these byte enables leaves

VARIABLES
    mem,          \* contents of every line
    pending,      \* the request each core waits for
    result        \* the line the last read of each core returned

Init ==
    /\ mem \in Memory
    /\ pending = [c \in Cores |-> NoRequest]
    /\ result = [c \in Cores |-> Nothing]

\* A core issues a request.
Issue(c, r) ==
    /\ pending[c] = NoRequest
    /\ pending' = [pending EXCEPT ![c] = r]
    /\ result' = [result EXCEPT ![c] = Nothing]
    /\ UNCHANGED mem

\* A read returns the line as the memory holds it.
Read(c) ==
    /\ pending[c] # NoRequest /\ ~pending[c].write
    /\ result' = [result EXCEPT ![c] = mem[pending[c].line]]
    /\ pending' = [pending EXCEPT ![c] = NoRequest]
    /\ UNCHANGED mem

\* A write replaces the enabled bytes of the line.
Write(c) ==
    /\ pending[c] # NoRequest /\ pending[c].write
    /\ mem' = [mem EXCEPT ![pending[c].line] =
                 Merge(@, pending[c].wdata, pending[c].be)]
    /\ pending' = [pending EXCEPT ![c] = NoRequest]
    /\ UNCHANGED result

Next == \E c \in Cores : \/ \E r \in Requests : Issue(c, r)
                         \/ Read(c)
                         \/ Write(c)

Spec == Init /\ [][Next]_<<mem, pending, result>>
=============================================================================
