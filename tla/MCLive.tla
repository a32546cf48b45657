------------------------------- MODULE MCLive -------------------------------
(* What semaphore and message callers are owed in the end.  The two         *)
(* registries are one daemon's and share no table: a behaviour is one of    *)
(* them at work.                                                            *)
EXTENDS MCSem

CONSTANTS MsgTags

\* A receiver nobody sends to, whose pid is used again while it sleeps on.
Request(op) == [op |-> op, id |-> 1, key |-> 1, creat |-> TRUE, excl |-> FALSE,
                perm |-> Rights, size |-> 2, mtype |-> 0, nowait |-> FALSE,
                noerror |-> FALSE, except |-> FALSE, tag |-> 1, faults |-> {}]
Forlorn ==
    LET wait == [Request("msgrcv") EXCEPT
                   !.faults = {"death", "muted", "reuse", "signal", "kick"}]
    IN  {[p \in {p1} |-> <<Request("msgget"), wait, wait>>]}

VARIABLES part, m_inc, m_life, m_msq, m_next, m_waitq, m_pc, m_todo, m_accq,
          m_pos, m_progress, m_backlog, m_srv, m_reply, m_script, m_cl, m_call,
          m_cancel, m_deadAt

mvars == <<m_inc, m_life, m_msq, m_next, m_waitq, m_pc, m_todo, m_accq,
           m_pos, m_progress, m_backlog, m_srv, m_reply, m_script, m_cl, m_call,
           m_cancel, m_deadAt>>

M == INSTANCE MsgReg WITH
       Pids <- {p1}, MaxInc <- 2, MaxId <- 1, Tags <- MsgTags,
       Conns <- {p1} \X (1..2), LONG_MAX <- 2, MSGMAX <- 2, MSGMNB <- 2,
       MSG_QUEUE_MAX <- 1, Programs <- Forlorn,
       inc <- m_inc, life <- m_life, g_msq <- m_msq, g_next_msqid <- m_next,
       waitq <- m_waitq, pc <- m_pc, todo <- m_todo, accq <- m_accq,
       pos <- m_pos, progress <- m_progress, backlog <- m_backlog, srv <- m_srv,
       reply <- m_reply, script <- m_script, cl <- m_cl, call <- m_call,
       cancel <- m_cancel, deadAt <- m_deadAt

Some(S) == CHOOSE x \in S : TRUE

LiveInit ==
    /\ part \in {"sem", "msg"}
    /\ Init /\ (part # "sem" => script = Some(Programs))
    /\ M!Init

LiveNext ==
    /\ UNCHANGED part
    /\ \/ part = "sem" /\ Next /\ UNCHANGED mvars
       \/ part = "msg" /\ M!Next /\ UNCHANGED vars

\* The fairness of SemReg's FairSpec and of MsgReg's, for the part at work.
LiveSpec ==
    /\ LiveInit /\ [][LiveNext]_<<part, vars, mvars>>
    /\ WF_vars(part = "sem" /\ Daemon) /\ SF_vars(part = "sem" /\ Tick)
    /\ \A p \in Pids : WF_vars(part = "sem" /\ Receive(p))
    /\ \A c \in Conns : WF_vars(part = "sem" /\ DeadlinePass(c))
    /\ WF_mvars(part = "msg" /\ M!Daemon) /\ SF_mvars(part = "msg" /\ M!Tick)
    /\ WF_mvars(part = "msg" /\ M!Receive(p1))

\* MsgReg's DeadSleepersLeave: a sleeper whose process is gone leaves the table
\* in the end, even if a child holds its connection open (the reclaim by
\* incarnation, src/monitor/ipcreg.c).
MsgDeadLeave == M!DeadSleepersLeave

\* MsgReg's WaitsEnd: an interrupted msgrcv or msgsnd ends, with the cancel
\* acknowledged or with the grant that beat it (do_msgrcv, do_msgsnd).
MsgWaitsEnd == M!WaitsEnd
=============================================================================
