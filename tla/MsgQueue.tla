------------------------------ MODULE MsgQueue -------------------------------
(***************************************************************************)
(* What the message queues promise their callers, whatever the daemon, the *)
(* sockets and the signals between them do: each call takes effect at one  *)
(* instant between its beginning and its end, or has no effect and says so.*)
(***************************************************************************)
EXTENDS MsgData

VARIABLES
    queues,     \* what each id names: a key, a capacity and messages
    op          \* each caller's call: idle, pending, or done with an answer

vars == <<queues, op>>

NoQueue == [used |-> FALSE, key |-> IPC_PRIVATE, qbytes |-> 0, msgs |-> <<>>]

\* The bytes in a queue.
Bytes(msgs) == FoldSeq(LAMBDA m, n : m.size + n, 0, msgs)
Fits(q, size) == Bytes(q.msgs) + size <= q.qbytes /\ Len(q.msgs) + 1 <= q.qbytes

Pending(c) == op[c].st = "pending"
Done(c, a) == op' = [op EXCEPT ![c].st = "done", ![c].ans = a]

Init ==
    /\ queues = [d \in Ids |-> NoQueue] /\ DOMAIN op = Conns
    /\ \A c \in Conns : /\ op[c].st = "idle" /\ op[c].call \in Breq
                        /\ ~op[c].cancel /\ op[c].ans = Say("ok")

\* A call begins: any request at all.
Begin(c) ==
    /\ op[c].st = "idle" /\ op'[c].call \in Breq
    /\ op' = [op EXCEPT ![c].st = "pending", ![c].call = op'[c].call]
    /\ UNCHANGED queues

\* Its caller asks for it to be given up, which is not to say that it will be.
Cancel(c) ==
    /\ op[c].st \in {"pending", "done"}
    /\ op' = [op EXCEPT ![c].cancel = TRUE] /\ UNCHANGED queues

Get(c) ==
    LET q == op[c].call
        Holders == {d \in Ids : queues[d].used /\ queues[d].key = q.key /\ q.key # IPC_PRIVATE}
    IN
    /\ Pending(c) /\ q.op = "msgget"
    /\ \/ /\ Holders # {}
          /\ Done(c, Say(IF q.creat /\ q.excl THEN "EEXIST"
                         ELSE IF "read" \notin q.perm THEN "EACCES" ELSE "ok"))
          /\ UNCHANGED queues
       \/ /\ Holders = {} /\ q.key # IPC_PRIVATE /\ ~q.creat
          /\ Done(c, Say("ENOENT")) /\ UNCHANGED queues
       \/ /\ Holders = {} /\ (q.key = IPC_PRIVATE \/ q.creat)
          /\ Done(c, Say("ENOSPC")) /\ UNCHANGED queues
       \/ /\ Holders = {} /\ (q.key = IPC_PRIVATE \/ q.creat)
          /\ \E d \in Ids :
               /\ ~queues[d].used
               /\ queues' = [queues EXCEPT ![d] = [used |-> TRUE, key |-> q.key,
                                                   qbytes |-> MSGMNB, msgs |-> <<>>]]
          /\ Done(c, Say("ok"))

\* A send appends its message if it fits; what does not fit goes on pending,
\* or fails.
Send(c) ==
    LET q == op[c].call IN
    /\ Pending(c) /\ q.op = "msgsnd" /\ queues[q.id].used
    /\ \/ "write" \notin q.perm /\ Done(c, Say("EACCES")) /\ UNCHANGED queues
       \/ /\ "write" \in q.perm /\ Fits(queues[q.id], q.size)
          /\ queues' = [queues EXCEPT ![q.id].msgs = Append(@, MsgOf(q))]
          /\ Done(c, Say("ok"))
       \/ /\ "write" \in q.perm /\ ~Fits(queues[q.id], q.size)
          /\ Done(c, Say("EAGAIN")) /\ UNCHANGED queues

\* A receive takes the first message it may, if any.
Recv(c) ==
    LET q == op[c].call
        k == Chosen(queues[q.id].msgs, q)
        m == queues[q.id].msgs[k]
    IN
    /\ Pending(c) /\ q.op = "msgrcv" /\ queues[q.id].used
    /\ \/ "read" \notin q.perm /\ Done(c, Say("EACCES")) /\ UNCHANGED queues
       \/ /\ "read" \in q.perm /\ k = 0 /\ Done(c, Say("ENOMSG"))
          /\ UNCHANGED queues
       \/ /\ "read" \in q.perm /\ k # 0 /\ TooBig(m, q)
          /\ Done(c, Say("E2BIG")) /\ UNCHANGED queues
       \/ /\ "read" \in q.perm /\ k # 0 /\ ~TooBig(m, q)
          /\ queues' = [queues EXCEPT ![q.id].msgs = RemoveAt(@, k)]
          /\ Done(c, Handed(m, q))

\* IPC_STAT, IPC_SET and IPC_RMID, the last with everyone it turns away.
Control(c) ==
    LET q == op[c].call
        may == CASE q.op = "stat" -> "read" \in q.perm
                 [] q.op = "ipc_set" -> MaySet(q)
                 [] q.op = "rmid" -> "own" \in q.perm
    IN
    /\ Pending(c) /\ q.op \in {"stat", "ipc_set", "rmid"} /\ queues[q.id].used
    /\ \/ /\ ~may /\ Done(c, Say(IF q.op = "stat" THEN "EACCES" ELSE "EPERM"))
          /\ UNCHANGED queues
       \/ may /\ q.op = "stat" /\ Done(c, Say("ok")) /\ UNCHANGED queues
       \/ /\ may /\ q.op = "ipc_set" /\ Done(c, Say("ok"))
          /\ queues' = [queues EXCEPT ![q.id].qbytes = q.size]
       \/ /\ may /\ q.op = "rmid" /\ queues' = [queues EXCEPT ![q.id] = NoQueue]
          /\ \E S \in SUBSET {e \in Conns \ {c} : /\ Pending(e) /\ op[e].call.id = q.id
                                                  /\ op[e].call.op \in {"msgsnd", "msgrcv"}} :
               op' = [e \in Conns |->
                        IF e = c THEN [op[c] EXCEPT !.st = "done", !.ans = Say("ok")]
                        ELSE IF e \in S THEN [op[e] EXCEPT !.st = "done", !.ans = Say("EIDRM")]
                        ELSE op[e]]

NoSuch(c) ==
    /\ Pending(c) /\ op[c].call.op # "msgget" /\ ~queues[op[c].call.id].used
    /\ Done(c, Say("EINVAL")) /\ UNCHANGED queues

\* A call without effect: cancelled because its caller asked, or cut off.
GiveUp(c) ==
    /\ Pending(c) /\ UNCHANGED queues
    /\ \/ op[c].cancel /\ Done(c, Say("EINTR"))
       \/ Done(c, Say("EIDRM"))

\* The caller has its answer; one that was only kicked by a tracer may make a
\* cancelled call again.
End(c) ==
    /\ op[c].st = "done" /\ UNCHANGED queues
    /\ \E st \in {"idle"} \cup (IF op[c].ans.ret = "EINTR" THEN {"pending"} ELSE {}) :
         op' = [op EXCEPT ![c].st = st, ![c].cancel = FALSE, ![c].ans = Say("ok")]

Next == \E c \in Conns :
            \/ Begin(c) \/ Cancel(c) \/ Get(c) \/ Send(c) \/ Recv(c) \/ Control(c) \/ NoSuch(c)
            \/ GiveUp(c) \/ End(c)

Spec == Init /\ [][Next]_vars
=============================================================================
