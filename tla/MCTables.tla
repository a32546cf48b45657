------------------------------ MODULE MCTables ------------------------------
(* Parts of the monitor that share no state, side by side: the file groups  *)
(* of link2symlink and the guest-PID table.  A behaviour is one at work.    *)
EXTENDS MCL2s, MCProc

VARIABLE part

Some(S) == CHOOSE x \in S : TRUE

AllInit ==
    /\ part \in {"links", "pids"}
    /\ Init /\ (part # "links" => LET g == Some(Programs) IN
                  <<exchange, fs, mark, pr, script>> = <<g.exchange, g.fs, g.mark, g.pr, g.script>>)
    /\ ProcInit /\ (part # "pids" => g_tab_n = Min(TabSizes) /\ proc_script = Some(ProcPrograms))

AllNext ==
    /\ UNCHANGED part
    /\ \/ part = "links" /\ Next /\ UNCHANGED procvars
       \/ part = "pids" /\ ProcNext /\ UNCHANGED vars

AllSpec == AllInit /\ [][AllNext]_<<part, vars, procvars>>
=============================================================================
