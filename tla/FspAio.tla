-------------------------------- MODULE FspAio --------------------------------
(***************************************************************************)
(* The buffers of the asynchronous requests of examples/syscall_fsp.c:     *)
(* io_submit takes one from the server for each request, and io_getevents  *)
(* collects the requests that are complete.                                *)
(***************************************************************************)
EXTENDS Integers, Sequences

CONSTANTS
    AioThreads,
    FsBuffers,     \* the buffers that fs_malloc can hand out
    MaxIocbs       \* bound: how many requests one io_submit makes

ASSUME AioAssumption == MaxIocbs \in Nat

VARIABLES
    allocated,     \* the buffers that were handed out and not freed
    requests,      \* the buffers of the requests that are under way
    iocbs,         \* what each thread has still to submit: whether the requests
                   \* are for files of FSP
    no_buffer      \* assert(cur_buf != NULL) has failed

aioVars == <<allocated, requests, iocbs, no_buffer>>

AioInit ==
    /\ allocated = {} /\ requests = {}
    /\ iocbs = [t \in AioThreads |-> <<>>]
    /\ no_buffer = FALSE

Batches == UNION {[1 .. n -> BOOLEAN] : n \in 0 .. MaxIocbs}

AioSubmit(t, batch) ==
    /\ ~no_buffer /\ iocbs[t] = <<>>
    /\ iocbs' = [iocbs EXCEPT ![t] = batch]
    /\ UNCHANGED <<allocated, requests, no_buffer>>

\* One round of the loop: fs_malloc, and fs_aio_submit for a file of FSP, which
\* the server may refuse.
AioIocb(t) ==
    /\ ~no_buffer /\ iocbs[t] # <<>>
    /\ iocbs' = [iocbs EXCEPT ![t] = Tail(@)]
    /\ \/ \E cur_buf \in FsBuffers \ allocated :
             /\ allocated' = allocated \cup {cur_buf}
             /\ requests' \in IF Head(iocbs[t])
                              THEN {requests, requests \cup {cur_buf}}
                              ELSE {requests}
             /\ UNCHANGED no_buffer
       \/ /\ no_buffer' = TRUE
          /\ UNCHANGED <<allocated, requests>>

\* fs_aio_getevents reports requests that are complete and frees their buffers.
AioGetevents(t, events) ==
    /\ ~no_buffer /\ iocbs[t] = <<>>
    /\ requests' = requests \ events
    /\ allocated' = allocated \ events
    /\ UNCHANGED <<iocbs, no_buffer>>

AioNext ==
    \E t \in AioThreads :
        \/ \E batch \in Batches : AioSubmit(t, batch)
        \/ AioIocb(t)
        \/ \E events \in SUBSET requests : AioGetevents(t, events)

AioSpec == AioInit /\ [][AioNext]_aioVars
-----------------------------------------------------------------------------
\* "will get dealloc in io_event": when every request has been collected and no
\* thread is submitting any, each buffer that io_submit took has been freed.
AioBuffersFreed ==
    requests = {} /\ (\A t \in AioThreads : iocbs[t] = <<>>) => allocated = {}
=============================================================================
