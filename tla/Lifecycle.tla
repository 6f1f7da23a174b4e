----------------------------- MODULE Lifecycle -----------------------------
(***************************************************************************)
(* The server as a background process, and the commands that start, stop   *)
(* and restart it (commands/serve.go).  They find it by the pid file only, *)
(* which each of them reads, acts upon and rewrites in separate steps,     *)
(* without a lock; any of them may be run beside another or interrupted.   *)
(*                                                                         *)
(* Process ids are not used again while a pid file names them, and nobody  *)
(* runs the server in the foreground or edits the file by hand.            *)
(***************************************************************************)
EXTENDS Naturals, FiniteSets

CONSTANTS
  Terminals,  \* where commands are typed
  MaxServers, \* bound: servers ever started
  Ports       \* the arguments of serve that matter here: the port it listens on

ASSUME LifecycleAssumption == MaxServers \in Nat /\ Ports \subseteq Nat \ {0}

VARIABLES
  proc,      \* the server processes: pid -> [st, port], and old, the pid of the server
             \* that a restart launched this one in place of, or 0
  pidfile,   \* ~/.idtrack/idtrack.pid: [pid, port], or NoFile
  term,      \* the command each terminal runs: [op, pc, pid, port, old]
  disturbed  \* history: commands overlapped, one was interrupted, a restart lost
             \* patience, or serve met a server that was still ending after a stop

lvars == <<proc, pidfile, term, disturbed>>

Pids == 1..MaxServers
NoFile == [pid |-> 0, port |-> 0]
AtPrompt == [op |-> "none", pc |-> "prompt", pid |-> 0, port |-> 0, old |-> 0]

LifecycleInit ==
  /\ proc = [p \in Pids |-> [st |-> "unused", port |-> 0, old |-> 0]]
  /\ pidfile = NoFile
  /\ term = [c \in Terminals |-> AtPrompt]
  /\ disturbed = FALSE

\* Signal 0: a process that is ending still exists.
Exists(p) == proc[p].st \in {"starting", "serving", "ending"}
BugRunning(p) == FALSE
Running(p) == Exists(p)
Up(p) == proc[p].st \in {"starting", "serving"}

Unused == {p \in Pids : proc[p].st = "unused"}
Typed == {c \in Terminals : term[c].pc # "prompt"}

At(c, pc) == term[c].pc = pc
Goto(c, pc) == term' = [term EXCEPT ![c].pc = pc]
Exit(c) == term' = [term EXCEPT ![c] = AtPrompt]

-----------------------------------------------------------------------------
(* The commands.                                                           *)

\* Bound: enough process ids are left for the commands under way.
Type(c, op, pc, port) ==
  /\ At(c, "prompt")
  /\ Cardinality(Unused) > Cardinality(Typed)
  /\ term' = [term EXCEPT ![c] = [AtPrompt EXCEPT !.op = op, !.pc = pc, !.port = port]]
  /\ disturbed' = (disturbed \/ Typed # {})
  /\ UNCHANGED <<proc, pidfile>>

\* Serve leaves the work to launchBackground.
Serve(c) == \E port \in Ports : Type(c, "serve", "launch", port)
Stop(c) == Type(c, "stop", "find", 0)
Restart(c) == Type(c, "restart", "find", 0)

Interrupt(c) ==
  /\ ~At(c, "prompt")
  /\ Exit(c)
  /\ disturbed' = TRUE
  /\ UNCHANGED <<proc, pidfile>>

\* Stop and Restart: readPidFile, ...
Find(c) ==
  /\ At(c, "find")
  /\ IF pidfile = NoFile THEN Exit(c)
     ELSE term' = [term EXCEPT ![c].pc = "signal", ![c].pid = pidfile.pid,
                               ![c].port = pidfile.port]
  /\ UNCHANGED <<proc, pidfile, disturbed>>

\* ... and SIGTERM.  When it cannot be sent the command fails, and leaves the
\* pid file where it is.
Signal(c) ==
  /\ At(c, "signal")
  /\ LET p == term[c].pid IN
       IF Exists(p)
       THEN /\ proc' = [proc EXCEPT ![p].st = "ending"]
            /\ term' = [term EXCEPT ![c].pc = IF term[c].op = "stop" THEN "forget" ELSE "wait",
                                    ![c].old = p]
       ELSE /\ Exit(c)
            /\ UNCHANGED proc
  /\ UNCHANGED <<pidfile, disturbed>>

StopForgets(c) ==
  /\ At(c, "forget")
  /\ pidfile' = NoFile
  /\ Exit(c)
  /\ UNCHANGED <<proc, disturbed>>

\* Restart waits until the process is gone, or for ten seconds, ...
BugWaited(c) == At(c, "wait")
Waited(c) == At(c, "wait") /\ ~Exists(term[c].pid)

RestartForgets(c) ==
  /\ Waited(c)
  /\ pidfile' = NoFile
  /\ Goto(c, "launch")
  /\ UNCHANGED <<proc, disturbed>>

TenSeconds(c) ==
  /\ At(c, "wait")
  /\ pidfile' = NoFile
  /\ Goto(c, "launch")
  /\ disturbed' = TRUE
  /\ UNCHANGED proc

\* ... and launches another with the arguments it found in the file.
\* launchBackground reads the file, too, ...
Launch(c) ==
  /\ At(c, "launch")
  /\ IF pidfile = NoFile THEN Goto(c, "spawn")
     ELSE term' = [term EXCEPT ![c].pc = "check", ![c].pid = pidfile.pid]
  /\ UNCHANGED <<proc, pidfile, disturbed>>

\* ... removes it if nobody answers to it, ...
Check(c) ==
  /\ At(c, "check")
  /\ IF Running(term[c].pid) THEN Exit(c) /\ UNCHANGED pidfile
     ELSE pidfile' = NoFile /\ Goto(c, "spawn")
  /\ UNCHANGED <<proc, disturbed>>

Spawn(c) ==
  /\ At(c, "spawn")
  /\ \E p \in Unused :
       /\ \A q \in Unused : p <= q
       /\ proc' = [proc EXCEPT ![p] = [st |-> "starting", port |-> term[c].port,
                                     old |-> term[c].old]]
       /\ term' = [term EXCEPT ![c].pc = "record", ![c].pid = p]
  /\ disturbed' = (disturbed \/ (term[c].op = "serve" /\ \E q \in Pids : proc[q].st = "ending"))
  /\ UNCHANGED pidfile

\* ... and writes it anew.
Record(c) ==
  /\ At(c, "record")
  /\ pidfile' = [pid |-> term[c].pid, port |-> term[c].port]
  /\ Exit(c)
  /\ UNCHANGED <<proc, disturbed>>

-----------------------------------------------------------------------------
(* The server process.                                                     *)

\* server.Start: it serves once it listens, which it cannot while another
\* process holds the port; then it gives up.
Listen(p) ==
  /\ proc[p].st = "starting"
  /\ LET taken == \E q \in Pids : proc[q].st \in {"serving", "ending"} /\ proc[q].port = proc[p].port
     IN  proc' = [proc EXCEPT ![p].st = IF taken THEN "refused" ELSE "serving"]
  /\ UNCHANGED <<pidfile, term, disturbed>>

\* It has no handler for SIGTERM.
End(p) ==
  /\ proc[p].st = "ending"
  /\ proc' = [proc EXCEPT ![p].st = "gone"]
  /\ UNCHANGED <<pidfile, term, disturbed>>

Crash(p) ==
  /\ Up(p)
  /\ proc' = [proc EXCEPT ![p].st = "crashed"]
  /\ UNCHANGED <<pidfile, term, disturbed>>

-----------------------------------------------------------------------------
LifecycleNext ==
  \/ \E c \in Terminals :
       \/ Serve(c) \/ Stop(c) \/ Restart(c) \/ Interrupt(c)
       \/ Find(c) \/ Signal(c) \/ StopForgets(c) \/ RestartForgets(c) \/ TenSeconds(c)
       \/ Launch(c) \/ Check(c) \/ Spawn(c) \/ Record(c)
  \/ \E p \in Pids : Listen(p) \/ End(p) \/ Crash(p)

LifecycleSpec == LifecycleInit /\ [][LifecycleNext]_lvars

-----------------------------------------------------------------------------
(* Properties.                                                             *)

\* Commands that come one at a time and run to their end never lose a server:
\* the one that is up is the one the pid file names, so there is no other
\* (README.md:82: "rather than starting a duplicate").
Managed ==
  \A p \in Pids : Up(p) /\ ~disturbed =>
    \/ pidfile = [pid |-> p, port |-> proc[p].port]
    \/ \E c \in Terminals : At(c, "record") /\ term[c].pid = p

\* The server a restart launches gets the arguments of the one it ended, and
\* finds its port free (commands/serve.go:311: "It waits for the old process
\* to exit before starting the new one so the port is free").
RestartFindsPort ==
  ~disturbed => \A p \in Pids : proc[p].old # 0 =>
    /\ proc[p].port = proc[proc[p].old].port
    /\ proc[p].st # "refused"
=============================================================================
