-------------------------- MODULE PeripheryProofs --------------------------
(***************************************************************************)
(* What holds of the parts around the request handlers: of Lifecycle for   *)
(* any number of terminals, servers and ports, of Retention for any        *)
(* policies and any number of agers, of Ingest for any file, any batch and *)
(* any list of projects, and of Feed for any number of requests under way, *)
(* of issues, of writes and of loads.  Four specifications, with nothing   *)
(* in common but the lemmas about data.                                    *)
(***************************************************************************)
EXTENDS Lifecycle, Retention, Ingest, Feed, DataTheorems

-----------------------------------------------------------------------------
(* Lifecycle.                                                              *)

States == {"unused", "starting", "serving", "ending", "gone", "crashed", "refused"}
Steps == {"prompt", "find", "signal", "forget", "wait", "launch", "check", "spawn", "record"}
PidOrNone == Pids \cup {0}
PortOrNone == Ports \cup {0}

Server == [st: States, port: PortOrNone, old: PidOrNone]
Command == [op: {"none", "serve", "stop", "restart"}, pc: Steps,
            pid: PidOrNone, port: PortOrNone, old: PidOrNone]

LTypeOK ==
  /\ proc \in [Pids -> Server]
  /\ pidfile = NoFile \/ pidfile \in [pid: Pids, port: PortOrNone]
  /\ term \in [Terminals -> Command]

\* Commands do not overlap, and neither do servers.
OneCommand == \A c, d \in Terminals : c = d \/ At(c, "prompt") \/ At(d, "prompt")
OneServer == \A p, q \in Pids : Exists(p) /\ Exists(q) => p = q

\* The pid file tells the port of the server it names.
FileTellsPort == pidfile # NoFile => pidfile.port = proc[pidfile.pid].port

NoneRefused == \A p \in Pids : proc[p].st # "refused"
HeirsPort ==
  \A p \in Pids : LET old == proc[p].old IN
    old # 0 => proc[old].st # "unused" /\ proc[p].port = proc[old].port

\* Between its launch and its spawn a restart has seen the old server end, and
\* removed the pid file.
Replaces(c) ==
  IF term[c].op = "restart"
  THEN /\ term[c].old \in Pids
       /\ proc[term[c].old].st \notin {"unused"}
       /\ proc[term[c].old].port = term[c].port
       /\ pidfile = NoFile
       /\ \A p \in Pids : ~Exists(p)
  ELSE term[c].op = "serve" /\ term[c].old = 0

\* What each command still knows of the pid file and of the server it found.
CommandKnows(c) ==
  /\ At(c, "find") => term[c].op \in {"stop", "restart"} /\ term[c].old = 0
  /\ At(c, "signal") =>
       /\ term[c].op \in {"stop", "restart"}
       /\ pidfile # NoFile
       /\ pidfile.pid = term[c].pid /\ pidfile.port = term[c].port
  /\ At(c, "forget") \/ At(c, "wait") =>
       /\ pidfile # NoFile
       /\ pidfile.pid = term[c].pid /\ pidfile.port = term[c].port
       /\ proc[term[c].pid].st \in {"ending", "gone"}
  /\ At(c, "wait") =>
       /\ term[c].op = "restart" /\ term[c].old = term[c].pid
       /\ \A p \in Pids : Exists(p) => p = term[c].pid
  /\ At(c, "launch") \/ At(c, "check") \/ At(c, "spawn") => Replaces(c)
  /\ At(c, "check") => pidfile # NoFile /\ pidfile.pid = term[c].pid
  /\ At(c, "spawn") => pidfile = NoFile
  /\ At(c, "record") =>
       pidfile = NoFile /\ term[c].pid \in Pids /\ proc[term[c].pid].port = term[c].port

Calm ==
  /\ LTypeOK /\ OneCommand /\ OneServer /\ FileTellsPort /\ NoneRefused /\ HeirsPort
  /\ \A c \in Terminals : CommandKnows(c)
  /\ Managed

IInv == ~disturbed => Calm

LEMMA ZeroIsNoPid == 0 \notin Pids
BY LifecycleAssumption DEF Pids

LEMMA InitIInv == LifecycleInit => IInv
BY LifecycleAssumption
   DEF LifecycleInit, IInv, Calm, LTypeOK, States, Steps, PidOrNone, PortOrNone, OneCommand,
       Server, Command, OneServer, FileTellsPort, NoneRefused, HeirsPort, CommandKnows,
       Managed, Pids, NoFile, AtPrompt, At, Exists, Up

\* A command that gives up, before it has launched anything, changes nothing.
LEMMA ExitIsCalm ==
  ASSUME Calm, NEW c \in Terminals, ~At(c, "record"), Exit(c),
         UNCHANGED <<proc, pidfile, disturbed>>
  PROVE  Calm'
<1> USE ZeroIsNoPid DEF Calm, At, Exists, Up, NoFile, Exit
<1>1. LTypeOK'
  BY DEF LTypeOK, Command, Steps, PidOrNone, PortOrNone, AtPrompt
<1>2. OneCommand'
  BY DEF LTypeOK, OneCommand, AtPrompt
<1>3. OneServer' /\ FileTellsPort' /\ NoneRefused' /\ HeirsPort'
  BY DEF OneServer, FileTellsPort, NoneRefused, HeirsPort
<1>4. ASSUME NEW d \in Terminals PROVE CommandKnows(d)'
  BY DEF LTypeOK, CommandKnows, Replaces, AtPrompt
<1>5. Managed'
  BY DEF LTypeOK, Managed
<1> QED
  BY <1>1, <1>2, <1>3, <1>4, <1>5

\* A step that leaves disturbed false had it false before.
LEMMA StepIInv == IInv /\ [LifecycleNext]_lvars => IInv'
<1> SUFFICES ASSUME IInv, [LifecycleNext]_lvars, ~disturbed' PROVE Calm'
  BY DEF IInv
<1> USE ZeroIsNoPid DEF Calm, At, Exists, Up, NoFile
<1>1. ~disturbed
  BY DEF lvars, LifecycleNext, Serve, Stop, Restart, Type, Interrupt, Find, Signal, StopForgets,
         RestartForgets, Waited, TenSeconds, Launch, Check, Spawn, Record, Listen, End, Crash
<1>2. Calm
  BY <1>1 DEF IInv
<1>3. ASSUME NEW c \in Terminals, NEW port \in Ports, Type(c, "serve", "launch", port)
      PROVE  Calm'
  <2> USE DEF LTypeOK, Server, Command, Type, Typed, AtPrompt
  <2>1. LTypeOK'
    BY <1>2, <1>3 DEF States, Steps, PidOrNone, PortOrNone, CommandKnows
  <2>2. OneCommand'
    BY <1>2, <1>3 DEF OneCommand
  <2>3. OneServer' /\ FileTellsPort' /\ NoneRefused' /\ HeirsPort'
    BY <1>2, <1>3 DEF OneServer, FileTellsPort, NoneRefused, HeirsPort
  <2>4. ASSUME NEW d \in Terminals PROVE CommandKnows(d)'
    BY <1>2, <1>3, <2>2
       DEF CommandKnows, Replaces, OneCommand, OneServer, FileTellsPort, Managed, PidOrNone
  <2>5. Managed'
    BY <1>2, <1>3 DEF Managed, OneCommand, CommandKnows
  <2> QED
    BY <2>1, <2>2, <2>3, <2>4, <2>5
<1>4. ASSUME NEW c \in Terminals, NEW op \in {"stop", "restart"}, Type(c, op, "find", 0)
      PROVE  Calm'
  <2> USE DEF LTypeOK, Server, Command, Type, Typed, AtPrompt
  <2>1. LTypeOK'
    BY <1>2, <1>4 DEF States, Steps, PidOrNone, PortOrNone, CommandKnows
  <2>2. OneCommand'
    BY <1>2, <1>4 DEF OneCommand
  <2>3. OneServer' /\ FileTellsPort' /\ NoneRefused' /\ HeirsPort'
    BY <1>2, <1>4 DEF OneServer, FileTellsPort, NoneRefused, HeirsPort
  <2>4. ASSUME NEW d \in Terminals PROVE CommandKnows(d)'
    BY <1>2, <1>4, <2>2
       DEF CommandKnows, Replaces, OneCommand, OneServer, FileTellsPort, Managed, PidOrNone
  <2>5. Managed'
    BY <1>2, <1>4 DEF Managed, OneCommand, CommandKnows
  <2> QED
    BY <2>1, <2>2, <2>3, <2>4, <2>5
<1>5. ASSUME NEW c \in Terminals, Interrupt(c) \/ TenSeconds(c) PROVE Calm'
  BY <1>5 DEF Interrupt, TenSeconds
<1>6. ASSUME NEW c \in Terminals, Find(c) PROVE Calm'
  <2> USE DEF LTypeOK, Server, Command, Find, Exit, AtPrompt
  <2>1. LTypeOK'
    BY <1>2, <1>6 DEF States, Steps, PidOrNone, PortOrNone, CommandKnows
  <2>2. OneCommand'
    BY <1>2, <1>6 DEF OneCommand
  <2>3. OneServer' /\ FileTellsPort' /\ NoneRefused' /\ HeirsPort'
    BY <1>2, <1>6 DEF OneServer, FileTellsPort, NoneRefused, HeirsPort
  <2>4. ASSUME NEW d \in Terminals PROVE CommandKnows(d)'
    BY <1>2, <1>6, <2>2
       DEF CommandKnows, Replaces, OneCommand, OneServer, FileTellsPort, Managed, PidOrNone
  <2>5. Managed'
    BY <1>2, <1>6 DEF Managed, OneCommand, CommandKnows
  <2> QED
    BY <2>1, <2>2, <2>3, <2>4, <2>5
<1>7. ASSUME NEW c \in Terminals, Signal(c) PROVE Calm'
  <2> DEFINE p == term[c].pid
  <2> USE DEF LTypeOK, Server, Command
  <2>1. c \in Terminals /\ p \in Pids /\ pidfile.pid = p /\ At(c, "signal")
    BY <1>2, <1>7 DEF CommandKnows, Signal
  <2>2. CASE ~Exists(p)
    BY <1>2, <1>7, <2>1, <2>2, ExitIsCalm DEF Signal
  <2>3. CASE Exists(p)
    <3> DEFINE next == IF term[c].op = "stop" THEN "forget" ELSE "wait"
    <3>1. /\ proc' = [proc EXCEPT ![p].st = "ending"]
          /\ term' = [term EXCEPT ![c].pc = next, ![c].old = p]
          /\ UNCHANGED <<pidfile, disturbed>>
      BY <1>7, <2>3 DEF Signal
    <3>2. LTypeOK'
      <4>1. proc' \in [Pids -> Server]
        BY <1>2, <2>1, <3>1 DEF States
      <4>2. next \in Steps /\ p \in PidOrNone
        BY <2>1 DEF Steps, PidOrNone
      <4> HIDE DEF next
      <4>3. term' \in [Terminals -> Command]
        BY <1>2, <2>1, <3>1, <4>2
      <4> QED
        BY <1>2, <3>1, <4>1, <4>3
    <3>3. OneCommand'
      BY <1>2, <2>1, <3>1 DEF OneCommand
    <3>4. OneServer' /\ NoneRefused' /\ FileTellsPort'
      BY <1>2, <2>1, <2>3, <3>1 DEF OneServer, NoneRefused, FileTellsPort
    <3>5. HeirsPort'
      BY <1>2, <2>1, <3>1 DEF HeirsPort, PidOrNone
    <3>6. ASSUME NEW d \in Terminals PROVE CommandKnows(d)'
      BY <1>2, <2>1, <2>3, <3>1, <3>3 DEF CommandKnows, OneCommand, OneServer
    <3>7. Managed'
      BY <1>2, <2>1, <3>1 DEF Managed, CommandKnows, OneCommand
    <3> QED
      BY <3>2, <3>3, <3>4, <3>5, <3>6, <3>7
  <2> QED
    BY <2>2, <2>3
<1>8. ASSUME NEW c \in Terminals, StopForgets(c) PROVE Calm'
  <2> USE DEF LTypeOK, Server, Command, StopForgets, Exit, AtPrompt
  <2>1. LTypeOK'
    BY <1>2, <1>8 DEF States, Steps, PidOrNone, PortOrNone, CommandKnows
  <2>2. OneCommand'
    BY <1>2, <1>8 DEF OneCommand
  <2>3. OneServer' /\ NoneRefused' /\ HeirsPort'
    BY <1>2, <1>8 DEF OneServer, NoneRefused, HeirsPort
  <2>4. FileTellsPort'
    BY <1>2, <1>8 DEF FileTellsPort, CommandKnows
  <2>5. ASSUME NEW d \in Terminals PROVE CommandKnows(d)'
    BY <1>2, <1>8, <2>2
       DEF CommandKnows, Replaces, OneCommand, OneServer, FileTellsPort, Managed, PidOrNone
  <2>6. Managed'
    BY <1>2, <1>8 DEF Managed, OneCommand, CommandKnows
  <2> QED
    BY <2>1, <2>2, <2>3, <2>4, <2>5, <2>6
<1>9. ASSUME NEW c \in Terminals, RestartForgets(c) PROVE Calm'
  <2> USE DEF LTypeOK, Server, Command, RestartForgets, Waited, Goto
  <2>1. LTypeOK'
    BY <1>2, <1>9 DEF States, Steps, PidOrNone, PortOrNone, CommandKnows
  <2>2. OneCommand'
    BY <1>2, <1>9 DEF OneCommand
  <2>3. OneServer' /\ NoneRefused' /\ HeirsPort'
    BY <1>2, <1>9 DEF OneServer, NoneRefused, HeirsPort
  <2>4. FileTellsPort'
    BY <1>2, <1>9 DEF FileTellsPort, CommandKnows
  <2>5. ASSUME NEW d \in Terminals PROVE CommandKnows(d)'
    BY <1>2, <1>9, <2>2
       DEF CommandKnows, Replaces, OneCommand, OneServer, FileTellsPort, Managed, PidOrNone
  <2>6. Managed'
    BY <1>2, <1>9 DEF Managed, OneCommand, CommandKnows
  <2> QED
    BY <2>1, <2>2, <2>3, <2>4, <2>5, <2>6
<1>10. ASSUME NEW c \in Terminals, Launch(c) PROVE Calm'
  <2> USE DEF LTypeOK, Server, Command, Launch, Goto
  <2>1. LTypeOK'
    <3>1. proc' \in [Pids -> Server]
      BY <1>2, <1>10 DEF States, PidOrNone, PortOrNone
    <3>2. pidfile' = NoFile \/ pidfile' \in [pid: Pids, port: PortOrNone]
      BY <1>2, <1>10
    <3>3. term' \in [Terminals -> Command]
      BY <1>2, <1>10 DEF Steps, PidOrNone, PortOrNone
    <3> QED
      BY <3>1, <3>2, <3>3
  <2>2. OneCommand'
    BY <1>2, <1>10 DEF OneCommand
  <2>3. OneServer' /\ FileTellsPort' /\ NoneRefused' /\ HeirsPort'
    BY <1>2, <1>10 DEF OneServer, FileTellsPort, NoneRefused, HeirsPort
  <2>4. ASSUME NEW d \in Terminals PROVE CommandKnows(d)'
    BY <1>2, <1>10, <2>2
       DEF CommandKnows, Replaces, OneCommand, OneServer, FileTellsPort, Managed, PidOrNone
  <2>5. Managed'
    BY <1>2, <1>10 DEF Managed, OneCommand, CommandKnows
  <2> QED
    BY <2>1, <2>2, <2>3, <2>4, <2>5
<1>11. ASSUME NEW c \in Terminals, Check(c) PROVE Calm'
  <2> USE DEF LTypeOK, Server, Command, Check, Running, Exit, Goto, AtPrompt
  <2>1. LTypeOK'
    <3>1. proc' \in [Pids -> Server]
      BY <1>2, <1>11 DEF States, PidOrNone, PortOrNone
    <3>2. pidfile' = NoFile \/ pidfile' \in [pid: Pids, port: PortOrNone]
      BY <1>2, <1>11
    <3>3. term' \in [Terminals -> Command]
      BY <1>2, <1>11 DEF Steps, PidOrNone, PortOrNone
    <3> QED
      BY <3>1, <3>2, <3>3
  <2>2. OneCommand'
    BY <1>2, <1>11 DEF OneCommand
  <2>3. OneServer' /\ NoneRefused' /\ HeirsPort'
    BY <1>2, <1>11 DEF OneServer, NoneRefused, HeirsPort
  <2>4. FileTellsPort'
    BY <1>2, <1>11 DEF FileTellsPort, CommandKnows
  <2>5. ASSUME NEW d \in Terminals PROVE CommandKnows(d)'
    BY <1>2, <1>11, <2>2
       DEF CommandKnows, Replaces, OneCommand, OneServer, FileTellsPort, Managed, PidOrNone
  <2>6. Managed'
    BY <1>2, <1>11 DEF Managed, OneCommand, CommandKnows
  <2> QED
    BY <2>1, <2>2, <2>3, <2>4, <2>5, <2>6
<1>12. ASSUME NEW c \in Terminals, Spawn(c) PROVE Calm'
  <2> USE DEF LTypeOK, Server, Command
  <2>1. PICK p \in Pids :
          /\ proc[p].st = "unused"
          /\ proc' = [proc EXCEPT ![p] = [st |-> "starting", port |-> term[c].port,
                                        old |-> term[c].old]]
          /\ term' = [term EXCEPT ![c].pc = "record", ![c].pid = p]
    BY <1>12 DEF Spawn, Unused
  <2>2. At(c, "spawn") /\ pidfile = NoFile /\ pidfile' = NoFile
    BY <1>2, <1>12 DEF Spawn, CommandKnows
  <2>3. \A q \in Pids : ~Exists(q)
    <3>1. \A q \in Pids : ~Up(q)
      <4>1. \A d \in Terminals : ~At(d, "record")
        BY <1>2, <2>2 DEF OneCommand
      <4>2. \A q \in Pids : pidfile # [pid |-> q, port |-> proc[q].port]
        BY <2>2
      <4> QED
        BY <1>1, <1>2, <4>1, <4>2 DEF Managed
    <3>2. CASE term[c].op = "restart"
      BY <1>2, <2>2, <3>2 DEF CommandKnows, Replaces
    <3>3. CASE term[c].op = "serve"
      BY <1>12, <3>1, <3>3 DEF Spawn
    <3> QED
      BY <1>2, <2>2, <3>2, <3>3 DEF CommandKnows, Replaces
  <2>4. LTypeOK'
    <3>1. proc' \in [Pids -> Server]
      BY <1>2, <2>1 DEF States
    <3>2. "record" \in Steps /\ p \in PidOrNone
      BY DEF Steps, PidOrNone
    <3>3. term' \in [Terminals -> Command]
      BY <1>2, <2>1, <3>2
    <3> QED
      BY <2>2, <3>1, <3>3
  <2>5. OneCommand'
    BY <1>2, <2>1, <2>2 DEF OneCommand
  <2>6. OneServer' /\ NoneRefused' /\ FileTellsPort'
    BY <1>2, <2>1, <2>2, <2>3 DEF OneServer, NoneRefused, FileTellsPort
  <2>7. HeirsPort'
    BY <1>2, <2>1, <2>2 DEF HeirsPort, CommandKnows, Replaces, PidOrNone
  <2>8. ASSUME NEW d \in Terminals PROVE CommandKnows(d)'
    BY <1>2, <2>1, <2>2, <2>5 DEF CommandKnows, OneCommand
  <2>9. Managed'
    BY <1>2, <2>1, <2>3 DEF Managed
  <2> QED
    BY <2>4, <2>5, <2>6, <2>7, <2>8, <2>9
<1>13. ASSUME NEW c \in Terminals, Record(c) PROVE Calm'
  <2> USE DEF LTypeOK, Server, Command, Record, Exit, AtPrompt
  <2>1. LTypeOK'
    BY <1>2, <1>13 DEF States, Steps, PidOrNone, PortOrNone, CommandKnows
  <2>2. OneCommand'
    BY <1>2, <1>13 DEF OneCommand
  <2>3. OneServer' /\ NoneRefused' /\ HeirsPort'
    BY <1>2, <1>13 DEF OneServer, NoneRefused, HeirsPort
  <2>4. FileTellsPort'
    BY <1>2, <1>13 DEF FileTellsPort, CommandKnows
  <2>5. ASSUME NEW d \in Terminals PROVE CommandKnows(d)'
    BY <1>2, <1>13, <2>2
       DEF CommandKnows, Replaces, OneCommand, OneServer, FileTellsPort, Managed, PidOrNone
  <2>6. Managed'
    BY <1>2, <1>13 DEF Managed, OneCommand, CommandKnows
  <2> QED
    BY <2>1, <2>2, <2>3, <2>4, <2>5, <2>6
<1>14. ASSUME NEW p \in Pids, Listen(p) PROVE Calm'
  <2> USE DEF LTypeOK, Server, Command, Listen
  <2>1. LTypeOK'
    BY <1>2, <1>14 DEF States, Steps, PidOrNone, PortOrNone, CommandKnows
  <2>2. OneCommand'
    BY <1>2, <1>14 DEF OneCommand
  <2>3. OneServer'
    BY <1>2, <1>14 DEF OneServer
  <2>4. FileTellsPort'
    BY <1>2, <1>14 DEF FileTellsPort, CommandKnows
  <2>5. NoneRefused'
    BY <1>2, <1>14 DEF NoneRefused, OneServer
  <2>6. HeirsPort'
    BY <1>2, <1>14 DEF HeirsPort, CommandKnows, Replaces, PidOrNone
  <2>7. ASSUME NEW d \in Terminals PROVE CommandKnows(d)'
    BY <1>2, <1>14, <2>2
       DEF CommandKnows, Replaces, OneCommand, OneServer, FileTellsPort, Managed, PidOrNone
  <2>8. Managed'
    BY <1>2, <1>14 DEF Managed, OneCommand, CommandKnows
  <2> QED
    BY <2>1, <2>2, <2>3, <2>4, <2>5, <2>6, <2>7, <2>8
<1>15. ASSUME NEW p \in Pids, End(p) PROVE Calm'
  <2> USE DEF LTypeOK, Server, Command, End
  <2>1. LTypeOK'
    <3>1. proc' \in [Pids -> Server]
      BY <1>2, <1>15 DEF States, PidOrNone, PortOrNone
    <3>2. pidfile' = NoFile \/ pidfile' \in [pid: Pids, port: PortOrNone]
      BY <1>2, <1>15
    <3>3. term' \in [Terminals -> Command]
      BY <1>2, <1>15 DEF Steps, PidOrNone, PortOrNone
    <3> QED
      BY <3>1, <3>2, <3>3
  <2>2. OneCommand'
    BY <1>2, <1>15 DEF OneCommand
  <2>3. OneServer'
    BY <1>2, <1>15 DEF OneServer
  <2>4. FileTellsPort'
    BY <1>2, <1>15 DEF FileTellsPort, CommandKnows
  <2>5. NoneRefused'
    BY <1>2, <1>15 DEF NoneRefused, OneServer
  <2>6. HeirsPort'
    BY <1>2, <1>15 DEF HeirsPort, CommandKnows, Replaces, PidOrNone
  <2>7. ASSUME NEW d \in Terminals PROVE CommandKnows(d)'
    BY <1>2, <1>15, <2>2
       DEF CommandKnows, Replaces, OneCommand, OneServer, FileTellsPort, Managed, PidOrNone
  <2>8. Managed'
    BY <1>2, <1>15 DEF Managed, OneCommand, CommandKnows
  <2> QED
    BY <2>1, <2>2, <2>3, <2>4, <2>5, <2>6, <2>7, <2>8
<1>16. ASSUME NEW p \in Pids, Crash(p) PROVE Calm'
  <2> USE DEF LTypeOK, Server, Command, Crash
  <2>1. LTypeOK'
    <3>1. proc' \in [Pids -> Server]
      BY <1>2, <1>16 DEF States, PidOrNone, PortOrNone
    <3>2. pidfile' = NoFile \/ pidfile' \in [pid: Pids, port: PortOrNone]
      BY <1>2, <1>16
    <3>3. term' \in [Terminals -> Command]
      BY <1>2, <1>16 DEF Steps, PidOrNone, PortOrNone
    <3> QED
      BY <3>1, <3>2, <3>3
  <2>2. OneCommand'
    BY <1>2, <1>16 DEF OneCommand
  <2>3. OneServer'
    BY <1>2, <1>16 DEF OneServer
  <2>4. FileTellsPort'
    BY <1>2, <1>16 DEF FileTellsPort, CommandKnows
  <2>5. NoneRefused'
    BY <1>2, <1>16 DEF NoneRefused, OneServer
  <2>6. HeirsPort'
    BY <1>2, <1>16 DEF HeirsPort, CommandKnows, Replaces, PidOrNone
  <2>7. ASSUME NEW d \in Terminals PROVE CommandKnows(d)'
    BY <1>2, <1>16, <2>2
       DEF CommandKnows, Replaces, OneCommand, OneServer, FileTellsPort, Managed, PidOrNone
  <2>8. Managed'
    BY <1>2, <1>16 DEF Managed, OneCommand, CommandKnows
  <2> QED
    BY <2>1, <2>2, <2>3, <2>4, <2>5, <2>6, <2>7, <2>8
<1>17. CASE UNCHANGED lvars
  BY <1>2, <1>17
     DEF lvars, LTypeOK, OneCommand, OneServer, FileTellsPort, NoneRefused, HeirsPort,
         CommandKnows, Replaces, Managed
<1> QED
  BY <1>3, <1>4, <1>5, <1>6, <1>7, <1>8, <1>9, <1>10, <1>11, <1>12, <1>13, <1>14, <1>15, <1>16,
     <1>17
     DEF LifecycleNext, Serve, Stop, Restart

LEMMA Invariance == LifecycleSpec => []IInv
BY InitIInv, StepIInv, PTL DEF LifecycleSpec

\* Commands typed one at a time never lose the server: the one that is up is the
\* one the pid file names (launchBackground, Stop and Restart of serve.go).
THEOREM ServerIsManaged == LifecycleSpec => []Managed
<1>1. IInv => Managed
  BY DEF IInv, Calm, Managed
<1> QED
  BY <1>1, Invariance, PTL

\* A restart launches the server with the arguments of the one it ended, and on
\* a port that is free: it waits for the process to be gone first.
THEOREM RestartsFindTheirPort == LifecycleSpec => []RestartFindsPort
<1>1. IInv => RestartFindsPort
  BY DEF IInv, Calm, RestartFindsPort, NoneRefused, HeirsPort
<1> QED
  BY <1>1, Invariance, PTL

-----------------------------------------------------------------------------
(* Retention.                                                              *)

Stages == {"idle", "size", "thin", "prune", "expire"}

RTypeOK ==
  /\ now \in Nat \ {0}
  /\ DOMAIN disk \subseteq 1..now /\ disk \in [DOMAIN disk -> BOOLEAN]
  /\ policy \in Policies
  /\ copying \in Nat
  /\ DOMAIN agers = Agers
  /\ \A a \in Agers :
       agers[a] \in [pc : Stages, todo : Seq(Nat), total : {agers[a].total},
                     seen : {agers[a].seen}, at : Nat]
  /\ agers = [a \in Agers |-> agers[a]]
  /\ kept \in BOOLEAN /\ late \in BOOLEAN

\* In time, a copy is the newest file and no ager is at work yet; ...
CopyIsNewest ==
  ~late /\ copying # NotCopying => copying = now /\ now \in DOMAIN disk /\ ~Busy

\* ... an ager is at work only when the newest file is a complete backup, which
\* none of its plans names.
AgersSpareNewest ==
  \A a \in Agers : ~late /\ agers[a].pc # "idle" =>
    /\ copying = NotCopying /\ now \in DOMAIN disk /\ disk[now]
    /\ now \notin ToSet(agers[a].todo)

RInv == RTypeOK /\ CopyIsNewest /\ AgersSpareNewest /\ AlwaysABackup

LEMMA RetentionBegins == RetentionInit => RInv
<1> SUFFICES ASSUME RetentionInit PROVE RInv
  OBVIOUS
<1>1. <<>> \in Seq(Nat) /\ DOMAIN NoRows = {}
  BY DEF NoRows
<1>2. RTypeOK
  <2>1. \A a \in Agers : agers[a] = Idle
    BY DEF RetentionInit
  <2>2. Idle \in [pc : Stages, todo : Seq(Nat), total : {Idle.total}, seen : {Idle.seen}, at : Nat]
    BY <1>1 DEF Idle, Stages
  <2>3. DOMAIN agers = Agers /\ agers = [a \in Agers |-> agers[a]]
    BY DEF RetentionInit
  <2>4. \A a \in Agers :
          agers[a] \in [pc : Stages, todo : Seq(Nat), total : {agers[a].total},
                        seen : {agers[a].seen}, at : Nat]
    BY <2>1, <2>2
  <2>5. /\ now \in Nat \ {0} /\ DOMAIN disk \subseteq 1..now /\ disk \in [DOMAIN disk -> BOOLEAN]
        /\ policy \in Policies /\ copying \in Nat /\ kept \in BOOLEAN /\ late \in BOOLEAN
    <3>1. NoRows \in [{} -> BOOLEAN]
      BY DEF NoRows
    <3>2. disk = NoRows /\ policy \in Policies /\ kept = FALSE /\ late = FALSE
      BY DEF RetentionInit
    <3>3. now = 1 /\ copying = 0
      BY DEF RetentionInit, NotCopying
    <3>4. DOMAIN disk \subseteq 1..now /\ disk \in [DOMAIN disk -> BOOLEAN]
      BY <1>1, <3>1, <3>2
    <3>5. now \in Nat \ {0} /\ copying \in Nat
      BY <3>3
    <3>6. kept \in BOOLEAN /\ late \in BOOLEAN
      BY <3>2
    <3> QED BY <3>2, <3>4, <3>5, <3>6
  <2> QED BY <2>3, <2>4, <2>5 DEF RTypeOK
<1>3. CopyIsNewest /\ AgersSpareNewest /\ AlwaysABackup
  BY DEF RetentionInit, CopyIsNewest, AgersSpareNewest, AlwaysABackup, Idle
<1> QED BY <1>2, <1>3 DEF RInv

-----------------------------------------------------------------------------
(* The candidates.                                                         *)

LEMMA OldestFirstMembers ==
  ASSUME NEW t \in Nat, NEW files, files \subseteq 1..t
  PROVE  /\ IsFiniteSet(files)
         /\ OldestFirst(files) \in Seq(files) /\ ToSet(OldestFirst(files)) = files
         /\ Len(OldestFirst(files)) = Cardinality(files)
         /\ Cardinality(files) \in Nat
         /\ \A i, j \in 1..Cardinality(files) :
              i < j => OldestFirst(files)[i] < OldestFirst(files)[j]
<1>1. IsFiniteSet(1..t) /\ files \in SUBSET (1..t)
  BY FS_Interval
<1>2. IsFiniteSet(files)
  BY <1>1, FS_Subset
<1>3. files \subseteq Nat
  OBVIOUS
<1> QED BY <1>2, <1>3, AscendingMembers DEF OldestFirst

LEMMA NewestIsLast ==
  ASSUME NEW t \in Nat, NEW files, files \subseteq 1..t, files # {}
  PROVE  Newest(files) \in files /\ \A f \in files : f <= Newest(files)
<1>1. files \subseteq 0..t
  OBVIOUS
<1>2. \E x \in files : \A y \in files : y <= x
  BY <1>1, GreatestNumber
<1>3. \A x, y \in files : y <= x <=> x >= y
  OBVIOUS
<1>4. \E x \in files : \A y \in files : x >= y
  BY <1>2, <1>3
<1>5. Newest(files) \in files /\ \A y \in files : Newest(files) >= y
  BY <1>4 DEF Newest, Max
<1> QED BY <1>3, <1>5

-----------------------------------------------------------------------------
(* The candidates.                                                         *)

\* The bucket of a file is its hour's for a day, then its day's.
Day(f, t) == HoursOld(f, t) \div HoursPerDay
DayOld(f, t) == HoursOld(f, t) >= HoursPerDay
Bucket(seen, t, f) ==
  IF HoursOld(f, t) < HoursPerDay THEN Hourly(seen, t, HoursOld(f, t))
  ELSE Daily(seen, t, Day(f, t))
IsNewest(seen, t, f) == f = Newest(Bucket(seen, t, f))

LEMMA Ages ==
  ASSUME NEW t \in Nat, NEW f \in 1..t
  PROVE  /\ f \in Nat /\ HoursOld(f, t) \in Nat /\ Day(f, t) \in Nat
         /\ DayOld(f, t) <=> Day(f, t) # 0
         /\ HoursOld(f, t) < HoursPerDay <=> Day(f, t) = 0
         /\ DayOld(f, t) => HoursOld(f, t) >= 1
         /\ HoursOld(f, t) >= 1 => f # t
         /\ ~DayOld(f, t) => HoursOld(f, t) \in 0..LastHour
<1>1. /\ TicksPerHour \in Nat \ {0} /\ HoursPerDay \in Nat \ {0, 1}
  BY RetentionAssumption
<1>2. t - f \in Nat
  OBVIOUS
<1>3. HoursOld(f, t) \in Nat
  BY <1>1, <1>2 DEF HoursOld
<1>4. f = t => HoursOld(f, t) = 0
  BY <1>1 DEF HoursOld
<1> DEFINE h == HoursOld(f, t)
<1>5. h \div HoursPerDay \in Nat /\ (h < HoursPerDay <=> h \div HoursPerDay = 0)
  <2> HIDE DEF h
  <2> QED BY <1>1, <1>3 DEF h
<1> QED BY <1>1, <1>3, <1>4, <1>5 DEF Day, DayOld, LastHour

\* Phase one: of each hour of the first day all but the newest file.
LEMMA HourlyExtrasMembers ==
  ASSUME NEW t \in Nat, NEW files, files \subseteq 1..t
  PROVE  /\ HourlyExtras(files, t) \in Seq(files)
         /\ ToSet(HourlyExtras(files, t)) =
              {f \in files : HoursOld(f, t) \in 1..LastHour /\ ~IsNewest(files, t, f)}
<1> DEFINE seqs == [h \in 1..LastHour |->
              LET bucket == Hourly(files, t, h)
              IN  IF bucket = {} THEN <<>> ELSE OldestFirst(Extras(bucket))]
           Rest(h) == {f \in files : HoursOld(f, t) = h /\ ~IsNewest(files, t, f)}
<1>1. LastHour \in Nat /\ LastHour < HoursPerDay /\ HoursPerDay \in Nat
  BY RetentionAssumption DEF LastHour
<1>2. ASSUME NEW h \in 1..LastHour
      PROVE  seqs[h] \in Seq(files) /\ ToSet(seqs[h]) = Rest(h)
  <2> DEFINE bucket == Hourly(files, t, h)
  <2>1. seqs[h] = IF bucket = {} THEN <<>> ELSE OldestFirst(Extras(bucket))
    OBVIOUS
  <2>2. Extras(bucket) \subseteq files /\ Extras(bucket) \subseteq 1..t
    BY DEF Extras, Hourly
  <2>3. \A f \in bucket : Bucket(files, t, f) = bucket
    BY <1>1 DEF Bucket, Hourly
  <2>4. Extras(bucket) = Rest(h)
    BY <2>3 DEF Extras, IsNewest, Hourly
  <2>5. bucket = {} => Rest(h) = {}
    BY DEF Hourly
  <2> HIDE DEF bucket, seqs, Rest
  <2>6. CASE bucket = {}
    BY <2>1, <2>5, <2>6 DEF ToSet
  <2>7. CASE bucket # {}
    <3>1. /\ OldestFirst(Extras(bucket)) \in Seq(Extras(bucket))
          /\ ToSet(OldestFirst(Extras(bucket))) = Extras(bucket)
      BY <2>2, OldestFirstMembers
    <3>2. OldestFirst(Extras(bucket)) \in Seq(files)
      BY <2>2, <3>1, SeqMonotonic
    <3> QED BY <2>1, <2>4, <2>7, <3>1, <3>2
  <2> QED BY <2>6, <2>7
<1>3. DOMAIN seqs = 1..LastHour /\ seqs \in [1..LastHour -> Seq(files)]
  BY <1>2
<1>4. HourlyExtras(files, t) = FlattenSeq(seqs)
  BY DEF HourlyExtras
<1> HIDE DEF seqs
<1>5. seqs \in Seq(Seq(files)) /\ Len(seqs) = LastHour
  <2>1. seqs \in Seq(Seq(files))
    BY <1>1, <1>3, SeqDef
  <2> QED BY <1>1, <1>3, <2>1
<1>6. ToSet(FlattenSeq(seqs)) = UNION {ToSet(seqs[h]) : h \in 1..LastHour}
  BY <1>5, FlattenMembers
<1>7. UNION {ToSet(seqs[h]) : h \in 1..LastHour} = UNION {Rest(h) : h \in 1..LastHour}
  BY <1>2
<1> QED BY <1>4, <1>5, <1>6, <1>7, FlattenMembers

LEMMA DaysMembers ==
  ASSUME NEW t \in Nat, NEW files, files \subseteq 1..t
  PROVE  /\ Days(files, t) = {Day(f, t) : f \in {g \in files : DayOld(g, t)}}
         /\ OldestFirst(Days(files, t)) \in Seq(Days(files, t))
         /\ Len(OldestFirst(Days(files, t))) \in Nat
         /\ ToSet(OldestFirst(Days(files, t))) = Days(files, t)
<1>1. \A f \in files : Day(f, t) \in Nat /\ (DayOld(f, t) <=> Day(f, t) # 0)
  BY Ages
<1>2. Days(files, t) = {Day(f, t) : f \in files} \ {0}
  BY DEF Days, Day
<1>3. Days(files, t) \subseteq Nat /\ Days(files, t) = {Day(f, t) : f \in {g \in files : DayOld(g, t)}}
  BY <1>1, <1>2
<1>4. IsFiniteSet(Days(files, t))
  <2> DEFINE day == [f \in files |-> Day(f, t)]
             all == {Day(f, t) : f \in files}
  <2>1. IsFiniteSet(files)
    BY OldestFirstMembers
  <2>2. day \in Surjection(files, all)
    BY DEF Surjection
  <2>3. IsFiniteSet(all)
    BY <2>1, <2>2, FS_Surjection
  <2>4. Days(files, t) \in SUBSET all
    BY <1>2
  <2> QED BY <2>3, <2>4, FS_Subset
<1> QED BY <1>3, <1>4, AscendingMembers DEF OldestFirst

\* Phase two: of each later day all but the newest file.
LEMMA DailyExtrasMembers ==
  ASSUME NEW t \in Nat, NEW files, files \subseteq 1..t
  PROVE  /\ DailyExtras(files, t) \in Seq(files)
         /\ ToSet(DailyExtras(files, t)) =
              {f \in files : DayOld(f, t) /\ ~IsNewest(files, t, f)}
<1> DEFINE days == OldestFirst(Days(files, t))
           seqs == [i \in DOMAIN days |-> OldestFirst(Extras(Daily(files, t, days[i])))]
           Rest(d) == {f \in files : Day(f, t) = d /\ ~IsNewest(files, t, f)}
<1>1. /\ days \in Seq(Days(files, t)) /\ Len(days) \in Nat /\ ToSet(days) = Days(files, t)
      /\ Days(files, t) = {Day(f, t) : f \in {g \in files : DayOld(g, t)}}
  BY DaysMembers
<1>2. DailyExtras(files, t) = FlattenSeq(seqs)
  BY DEF DailyExtras
<1>3. \A f \in files : HoursOld(f, t) \in Nat /\ (DayOld(f, t) <=> Day(f, t) # 0)
                       /\ (HoursOld(f, t) < HoursPerDay <=> Day(f, t) = 0)
  BY Ages
<1> HIDE DEF days
<1>4. \A i \in 1..Len(days) : days[i] \in Days(files, t) /\ days[i] # 0
  BY <1>1, <1>3
<1>5. DOMAIN days = 1..Len(days)
  BY <1>1
<1>6. ASSUME NEW i \in 1..Len(days)
      PROVE  seqs[i] \in Seq(files) /\ ToSet(seqs[i]) = Rest(days[i])
  <2> DEFINE bucket == Daily(files, t, days[i])
  <2>1. seqs[i] = OldestFirst(Extras(bucket))
    BY <1>5
  <2>2. Extras(bucket) \subseteq files /\ Extras(bucket) \subseteq 1..t
    BY DEF Extras, Daily
  <2>3. \A f \in bucket : Bucket(files, t, f) = bucket
    BY <1>3, <1>4 DEF Bucket, Daily, Day
  <2>4. Extras(bucket) = Rest(days[i])
    BY <2>3 DEF Extras, IsNewest, Daily, Day
  <2> HIDE DEF bucket, seqs, Rest
  <2>5. /\ OldestFirst(Extras(bucket)) \in Seq(Extras(bucket))
        /\ ToSet(OldestFirst(Extras(bucket))) = Extras(bucket)
    BY <2>2, OldestFirstMembers
  <2>6. OldestFirst(Extras(bucket)) \in Seq(files)
    BY <2>2, <2>5, SeqMonotonic
  <2> QED BY <2>1, <2>4, <2>5, <2>6
<1>7. DOMAIN seqs = 1..Len(days) /\ seqs \in [1..Len(days) -> Seq(files)]
  BY <1>5, <1>6
<1> HIDE DEF seqs
<1>8. seqs \in Seq(Seq(files)) /\ Len(seqs) = Len(days)
  <2>1. seqs \in Seq(Seq(files))
    BY <1>1, <1>7, SeqDef
  <2> QED BY <1>1, <1>7, <2>1
<1>9. ToSet(FlattenSeq(seqs)) = UNION {ToSet(seqs[i]) : i \in 1..Len(days)}
  BY <1>8, FlattenMembers
<1>10. UNION {ToSet(seqs[i]) : i \in 1..Len(days)} = UNION {Rest(d) : d \in Days(files, t)}
  <2>1. UNION {ToSet(seqs[i]) : i \in 1..Len(days)} = UNION {Rest(days[i]) : i \in 1..Len(days)}
    BY <1>6
  <2>2. Days(files, t) = {days[i] : i \in 1..Len(days)}
    BY <1>1, <1>5 DEF ToSet
  <2> HIDE DEF Rest
  <2> QED BY <2>1, <2>2
<1>11. UNION {Rest(d) : d \in Days(files, t)} =
         {f \in files : DayOld(f, t) /\ ~IsNewest(files, t, f)}
  BY <1>1, <1>3
<1> QED BY <1>2, <1>8, <1>9, <1>10, <1>11, FlattenMembers

\* Phase three: the last hour's file, when there is a day-old one.
LEMMA BridgeMembers ==
  ASSUME NEW t \in Nat, NEW files, files \subseteq 1..t
  PROVE  /\ Bridge(files, t) \in Seq(files)
         /\ \A f \in ToSet(Bridge(files, t)) :
              HoursOld(f, t) = LastHour /\ 1 \in Days(files, t)
<1> DEFINE bucket == Hourly(files, t, LastHour)
<1>1. bucket \subseteq files /\ \A f \in bucket : HoursOld(f, t) = LastHour
  BY DEF Hourly
<1>2. bucket # {} => Newest(bucket) \in bucket
  BY <1>1, NewestIsLast
<1>3. Bridge(files, t) = <<>>
      \/ (bucket # {} /\ 1 \in Days(files, t) /\ Bridge(files, t) = <<Newest(bucket)>>)
  BY DEF Bridge
<1> HIDE DEF bucket
<1>4. \A f \in files : <<f>> \in Seq(files) /\ ToSet(<<f>>) = {f}
  BY DEF ToSet
<1>5. <<>> \in Seq(files) /\ ToSet(<<>>) = {}
  BY DEF ToSet
<1>6. CASE Bridge(files, t) = <<>>
  BY <1>5, <1>6
<1>7. CASE bucket # {} /\ 1 \in Days(files, t) /\ Bridge(files, t) = <<Newest(bucket)>>
  <2>1. Newest(bucket) \in files /\ HoursOld(Newest(bucket), t) = LastHour
    BY <1>1, <1>2, <1>7
  <2>2. Bridge(files, t) \in Seq(files) /\ ToSet(Bridge(files, t)) = {Newest(bucket)}
    BY <1>4, <1>7, <2>1
  <2> QED BY <1>7, <2>1, <2>2
<1> QED BY <1>3, <1>6, <1>7

\* Phase four: the newest file of each later day, the oldest first.
LEMMA DailyKeepersMembers ==
  ASSUME NEW t \in Nat, NEW files, files \subseteq 1..t
  PROVE  LET keepers == DailyKeepers(files, t) IN
         /\ keepers \in Seq(files)
         /\ ToSet(keepers) = {f \in files : DayOld(f, t) /\ IsNewest(files, t, f)}
         /\ \A i, j \in DOMAIN keepers : i < j => keepers[i] < keepers[j]
<1> DEFINE S == {Newest(Daily(files, t, d)) : d \in Days(files, t)}
           keepers == DailyKeepers(files, t)
<1>1. Days(files, t) = {Day(f, t) : f \in {g \in files : DayOld(g, t)}}
  BY DaysMembers
<1>2. \A f \in files : HoursOld(f, t) \in Nat /\ (DayOld(f, t) <=> Day(f, t) # 0)
                       /\ (HoursOld(f, t) < HoursPerDay <=> Day(f, t) = 0)
  BY Ages
<1>3. \A f \in files : DayOld(f, t) => Bucket(files, t, f) = Daily(files, t, Day(f, t))
  BY <1>2 DEF Bucket
<1>4. ASSUME NEW d \in Days(files, t)
      PROVE  /\ Newest(Daily(files, t, d)) \in files
             /\ DayOld(Newest(Daily(files, t, d)), t)
             /\ IsNewest(files, t, Newest(Daily(files, t, d)))
  <2> DEFINE bucket == Daily(files, t, d)
             f == Newest(bucket)
  <2>1. bucket \subseteq 1..t /\ bucket # {} /\ bucket \subseteq files
        /\ (\A g \in bucket : Day(g, t) = d) /\ d # 0
    BY <1>1, <1>2 DEF Daily, Day
  <2> HIDE DEF bucket
  <2>2. f \in bucket
    BY <2>1, NewestIsLast
  <2> HIDE DEF f
  <2>3. f \in files /\ DayOld(f, t) /\ Day(f, t) = d
    BY <1>2, <2>1, <2>2
  <2>4. IsNewest(files, t, f)
    BY <1>3, <2>3 DEF IsNewest, f, bucket
  <2> QED BY <2>3, <2>4 DEF f, bucket
<1>5. S = {f \in files : DayOld(f, t) /\ IsNewest(files, t, f)}
  <2>1. S \subseteq {f \in files : DayOld(f, t) /\ IsNewest(files, t, f)}
    BY <1>4
  <2>2. ASSUME NEW f \in files, DayOld(f, t), IsNewest(files, t, f)
        PROVE  f \in S
    <3>1. Day(f, t) \in Days(files, t)
      BY <1>1, <2>2
    <3>2. f = Newest(Daily(files, t, Day(f, t)))
      BY <1>3, <2>2 DEF IsNewest
    <3> QED BY <3>1, <3>2
  <2> QED BY <2>1, <2>2
<1>6. S \subseteq files /\ S \subseteq 1..t
  BY <1>5
<1>7. keepers = OldestFirst(S)
  BY DEF DailyKeepers
<1> HIDE DEF S, keepers
<1>8. /\ keepers \in Seq(S) /\ ToSet(keepers) = S /\ Len(keepers) = Cardinality(S)
      /\ \A i, j \in 1..Cardinality(S) : i < j => keepers[i] < keepers[j]
  BY <1>6, <1>7, OldestFirstMembers
<1>9. keepers \in Seq(files)
  BY <1>6, <1>8, SeqMonotonic
<1>10. DOMAIN keepers = 1..Cardinality(S)
  BY <1>8
<1> QED BY <1>5, <1>8, <1>9, <1>10 DEF keepers

\* What an ager has still to remove: files of the last hour never, the one file of
\* an hour only as a bridge to the first day, the one file of a day after all others
\* and by age.
ByDensity(todo, seen, t) ==
  /\ \A i \in DOMAIN todo :
       /\ todo[i] \in seen /\ HoursOld(todo[i], t) >= 1
       /\ IsNewest(seen, t, todo[i]) /\ ~DayOld(todo[i], t) =>
            HoursOld(todo[i], t) = LastHour /\ 1 \in Days(seen, t)
  /\ \A i, j \in DOMAIN todo :
       i < j /\ IsNewest(seen, t, todo[i]) /\ DayOld(todo[i], t) =>
         IsNewest(seen, t, todo[j]) /\ DayOld(todo[j], t) /\ todo[i] < todo[j]

\* It leaves out a file that is there, and is to go before others.
Overlooks(todo, seen, t, files) ==
  \E g \in seen \cap files :
    /\ HoursOld(g, t) >= 1 /\ (DayOld(g, t) \/ ~IsNewest(seen, t, g))
    /\ g \notin ToSet(todo)

\* The plan of sizeBackups, its four phases one after the other.
LEMMA CandidatesByDensity ==
  ASSUME NEW t \in Nat, NEW files, files \subseteq 1..t
  PROVE  /\ Candidates(files, t) \in Seq(files \ {t})
         /\ ByDensity(Candidates(files, t), files, t)
         /\ ~Overlooks(Candidates(files, t), files, t, files)
<1> DEFINE he == HourlyExtras(files, t)
           de == DailyExtras(files, t)
           br == Bridge(files, t)
           dk == DailyKeepers(files, t)
           first == he \o de \o br
           all == Candidates(files, t)
           Keeper(f) == IsNewest(files, t, f)
<1>1. he \in Seq(files) /\ ToSet(he) = {f \in files : HoursOld(f, t) \in 1..LastHour /\ ~Keeper(f)}
  BY HourlyExtrasMembers
<1>2. de \in Seq(files) /\ ToSet(de) = {f \in files : DayOld(f, t) /\ ~Keeper(f)}
  BY DailyExtrasMembers
<1>3. br \in Seq(files)
      /\ \A f \in ToSet(br) : HoursOld(f, t) = LastHour /\ 1 \in Days(files, t)
  BY BridgeMembers
<1>4. /\ dk \in Seq(files) /\ ToSet(dk) = {f \in files : DayOld(f, t) /\ Keeper(f)}
      /\ \A i, j \in DOMAIN dk : i < j => dk[i] < dk[j]
  BY DailyKeepersMembers
<1>5. LastHour \in Nat /\ LastHour >= 1 /\ LastHour = HoursPerDay - 1 /\ HoursPerDay \in Nat
  BY RetentionAssumption DEF LastHour
<1>6. \A f \in files :
        /\ f \in Nat /\ HoursOld(f, t) \in Nat
        /\ DayOld(f, t) => HoursOld(f, t) >= 1
        /\ HoursOld(f, t) >= 1 => f # t
        /\ ~DayOld(f, t) => HoursOld(f, t) \in 0..LastHour
        /\ HoursOld(f, t) = LastHour => ~DayOld(f, t)
  BY <1>5, Ages DEF DayOld
<1>7. all = first \o dk
  BY DEF Candidates
<1> HIDE DEF he, de, br, dk, all
<1>8. first \in Seq(files) /\ ToSet(first) = ToSet(he) \cup ToSet(de) \cup ToSet(br)
  <2> DEFINE extras == he \o de
  <2>1. extras \in Seq(files) /\ ToSet(extras) = ToSet(he) \cup ToSet(de)
    BY <1>1, <1>2, ConcatMembers
  <2>2. first = extras \o br
    OBVIOUS
  <2> HIDE DEF extras, first
  <2> QED BY <1>3, <2>1, <2>2, ConcatMembers
<1> HIDE DEF first
<1>9. all \in Seq(files) /\ ToSet(all) = ToSet(first) \cup ToSet(dk)
  BY <1>4, <1>7, <1>8, ConcatMembers
<1>10. /\ Len(first) \in Nat /\ Len(dk) \in Nat /\ Len(all) = Len(first) + Len(dk)
       /\ \A i \in 1..Len(all) :
            all[i] = IF i <= Len(first) THEN first[i] ELSE dk[i - Len(first)]
  BY <1>4, <1>7, <1>8
<1> HIDE DEF Keeper
\* Of the first three phases none takes the newest of a day.
<1>11. \A f \in ToSet(first) :
         /\ f \in files /\ HoursOld(f, t) >= 1 /\ ~(Keeper(f) /\ DayOld(f, t))
         /\ Keeper(f) => HoursOld(f, t) = LastHour /\ 1 \in Days(files, t)
  <2> SUFFICES ASSUME NEW f \in ToSet(first)
      PROVE  /\ f \in files /\ HoursOld(f, t) >= 1 /\ ~(Keeper(f) /\ DayOld(f, t))
             /\ Keeper(f) => HoursOld(f, t) = LastHour /\ 1 \in Days(files, t)
    OBVIOUS
  <2>1. f \in files
    BY <1>8 DEF ToSet
  <2> QED BY <1>1, <1>2, <1>3, <1>5, <1>6, <1>8, <2>1
<1>12. \A f \in ToSet(dk) : f \in files /\ HoursOld(f, t) >= 1 /\ Keeper(f) /\ DayOld(f, t)
  BY <1>4, <1>6
<1>13. \A i \in 1..Len(all) : IF i <= Len(first) THEN all[i] \in ToSet(first)
                             ELSE i - Len(first) \in DOMAIN dk /\ all[i] = dk[i - Len(first)]
                                  /\ all[i] \in ToSet(dk)
  <2> SUFFICES ASSUME NEW i \in 1..Len(all)
      PROVE  IF i <= Len(first) THEN all[i] \in ToSet(first)
             ELSE i - Len(first) \in DOMAIN dk /\ all[i] = dk[i - Len(first)]
                  /\ all[i] \in ToSet(dk)
    OBVIOUS
  <2>1. CASE i <= Len(first)
    BY <1>8, <1>10, <2>1 DEF ToSet
  <2>2. CASE ~(i <= Len(first))
    <3>1. i - Len(first) \in 1..Len(dk) /\ 1..Len(dk) = DOMAIN dk
      BY <1>4, <1>10, <2>2
    <3> QED BY <1>10, <2>2, <3>1 DEF ToSet
  <2> QED BY <2>1, <2>2
<1>14. all \in Seq(files \ {t})
  <2>1. ToSet(all) \subseteq files \ {t}
    BY <1>6, <1>9, <1>11, <1>12
  <2> QED BY <1>9, <2>1, SeqOfMembers
<1>15. ByDensity(all, files, t)
  <2>1. DOMAIN all = 1..Len(all) /\ Len(all) \in Nat
    BY <1>9
  <2>2. \A i \in 1..Len(all) :
          /\ all[i] \in files /\ HoursOld(all[i], t) >= 1
          /\ Keeper(all[i]) /\ ~DayOld(all[i], t) =>
               HoursOld(all[i], t) = LastHour /\ 1 \in Days(files, t)
    BY <1>11, <1>12, <1>13
  <2>3. ASSUME NEW i \in 1..Len(all), NEW j \in 1..Len(all), i < j, Keeper(all[i]), DayOld(all[i], t)
        PROVE  Keeper(all[j]) /\ DayOld(all[j], t) /\ all[i] < all[j]
    <3>1. ~(i <= Len(first)) /\ ~(j <= Len(first))
      BY <1>10, <1>11, <1>13, <2>3
    <3>2. i - Len(first) < j - Len(first)
      BY <1>10, <2>3
    <3> QED BY <1>4, <1>12, <1>13, <3>1, <3>2
  <2> QED BY <2>1, <2>2, <2>3 DEF ByDensity, Keeper
<1>16. ~Overlooks(all, files, t, files)
  <2> SUFFICES ASSUME NEW g \in files, HoursOld(g, t) >= 1, DayOld(g, t) \/ ~Keeper(g)
      PROVE  g \in ToSet(all)
    BY DEF Overlooks, Keeper
  <2>1. CASE DayOld(g, t)
    BY <1>2, <1>4, <1>8, <1>9, <2>1
  <2>2. CASE ~DayOld(g, t)
    BY <1>1, <1>5, <1>6, <1>8, <1>9, <2>2
  <2> QED BY <2>1, <2>2
<1> QED BY <1>14, <1>15, <1>16 DEF all

\* What is left of a plan when its head has been dealt with.
LEMMA RestByDensity ==
  ASSUME NEW t \in Nat, NEW seen, NEW files, NEW rest, NEW todo \in Seq(Nat), todo # <<>>,
         ByDensity(todo, seen, t), ~Overlooks(todo, seen, t, files),
         rest \subseteq files \ {Head(todo)}
  PROVE  ByDensity(Tail(todo), seen, t) /\ ~Overlooks(Tail(todo), seen, t, rest)
<1> DEFINE tail == Tail(todo)
<1>1. /\ Head(todo) \in ToSet(todo) /\ tail \in Seq(Nat) /\ DOMAIN tail = 1..(Len(todo) - 1)
      /\ Len(todo) \in Nat /\ DOMAIN todo = 1..Len(todo) /\ Head(todo) = todo[1]
      /\ \A i \in 1..(Len(todo) - 1) : i + 1 \in DOMAIN todo /\ tail[i] = todo[i + 1]
  BY TailMembers
<1> HIDE DEF tail
<1>2. ByDensity(tail, seen, t)
  <2>1. \A i, j \in 1..(Len(todo) - 1) : i < j => i + 1 < j + 1
    BY <1>1
  <2> QED BY <1>1, <2>1 DEF ByDensity
<1>3. \A g \in ToSet(todo) : g = Head(todo) \/ g \in ToSet(tail)
  <2> SUFFICES ASSUME NEW i \in 1..Len(todo), i # 1 PROVE todo[i] \in ToSet(tail)
    BY <1>1 DEF ToSet
  <2>1. i - 1 \in DOMAIN tail /\ i - 1 + 1 = i
    BY <1>1
  <2>2. tail[i - 1] = todo[i]
    BY <1>1, <2>1
  <2> QED BY <2>1, <2>2 DEF ToSet
<1>4. ~Overlooks(tail, seen, t, rest)
  BY <1>3 DEF Overlooks
<1> QED BY <1>2, <1>4 DEF tail

\* The head of a plan is what the documented density asks for next.
LEMMA HeadByDensity ==
  ASSUME NEW t \in Nat, NEW seen, seen \subseteq 1..t, NEW files, NEW todo \in Seq(Nat), todo # <<>>,
         ByDensity(todo, seen, t), ~Overlooks(todo, seen, t, files)
  PROVE  LET f == Head(todo) IN
         /\ HoursOld(f, t) >= 1
         /\ IsNewest(seen, t, f) /\ HoursOld(f, t) < HoursPerDay =>
              HoursOld(f, t) = LastHour /\ 1 \in Days(seen, t)
         /\ IsNewest(seen, t, f) /\ HoursOld(f, t) >= HoursPerDay =>
              \A g \in seen \cap files : HoursOld(g, t) >= 1 =>
                IsNewest(seen, t, g) /\ (HoursOld(g, t) >= HoursPerDay => g >= f)
<1> DEFINE f == todo[1]
<1>1. /\ Head(todo) = f /\ 1 \in DOMAIN todo /\ DOMAIN todo = 1..Len(todo) /\ Len(todo) \in Nat
      /\ \A i \in DOMAIN todo : todo[i] \in Nat
  OBVIOUS
<1>2. f \in seen /\ HoursOld(f, t) >= 1 /\ HoursOld(f, t) \in Nat /\ HoursPerDay \in Nat
  <2>1. f \in seen /\ HoursOld(f, t) >= 1
    BY <1>1 DEF ByDensity
  <2> QED BY <2>1, Ages, RetentionAssumption
<1>3. ~(HoursOld(f, t) < HoursPerDay /\ DayOld(f, t))
  BY <1>2 DEF DayOld
<1>4. IsNewest(seen, t, f) /\ HoursOld(f, t) < HoursPerDay =>
        HoursOld(f, t) = LastHour /\ 1 \in Days(seen, t)
  BY <1>1, <1>3 DEF ByDensity
<1>5. ASSUME IsNewest(seen, t, f), DayOld(f, t), NEW g \in seen \cap files, HoursOld(g, t) >= 1
      PROVE  IsNewest(seen, t, g) /\ (DayOld(g, t) => g >= f)
  <2>1. CASE g \in ToSet(todo)
    <3>1. PICK j \in DOMAIN todo : g = todo[j]
      BY <2>1 DEF ToSet
    <3>2. j = 1 \/ 1 < j
      BY <1>1
    <3>3. CASE j = 1
      BY <1>1, <1>5, <3>1, <3>3
    <3>4. CASE 1 < j
      <4>1. IsNewest(seen, t, g) /\ f < g
        BY <1>1, <1>5, <3>1, <3>4 DEF ByDensity
      <4> QED BY <1>1, <3>1, <4>1
    <3> QED BY <3>2, <3>3, <3>4
  <2>2. CASE g \notin ToSet(todo)
    BY <1>5, <2>2 DEF Overlooks
  <2> QED BY <2>1, <2>2
<1> QED BY <1>1, <1>2, <1>4, <1>5 DEF DayOld

-----------------------------------------------------------------------------
(* Every step.                                                             *)

\* Removing any other file keeps the newest.
LEMMA RemovalKeeps ==
  ASSUME NEW f, NEW d, d \in [DOMAIN d -> BOOLEAN]
  PROVE  /\ DOMAIN Without(d, {f}) = DOMAIN d \ {f}
         /\ Without(d, {f}) \in [DOMAIN d \ {f} -> BOOLEAN]
         /\ \A g \in DOMAIN d \ {f} : Without(d, {f})[g] = d[g]
BY WithoutRows, WithoutType

LEMMA RetentionSteps == RInv /\ [RetentionNext]_rvars => RInv'
<1> SUFFICES ASSUME RInv, [RetentionNext]_rvars PROVE RInv'
  OBVIOUS
<1>1. /\ now \in Nat \ {0} /\ DOMAIN disk \subseteq 1..now /\ disk \in [DOMAIN disk -> BOOLEAN]
      /\ policy \in Policies /\ copying \in Nat /\ kept \in BOOLEAN /\ late \in BOOLEAN
      /\ DOMAIN agers = Agers /\ agers = [a \in Agers |-> agers[a]]
  BY DEF RInv, RTypeOK
<1>2. \A a \in Agers :
        agers[a] \in [pc : Stages, todo : Seq(Nat), total : {agers[a].total},
                      seen : {agers[a].seen}, at : Nat]
  BY DEF RInv, RTypeOK
<1>3. Idle.pc = "idle" /\ Idle.todo = <<>>
      /\ Idle \in [pc : Stages, todo : Seq(Nat), total : {Idle.total}, seen : {Idle.seen}, at : Nat]
  <2>1. <<>> \in Seq(Nat)
    OBVIOUS
  <2> QED BY <2>1 DEF Idle, Stages
<1>4. ~late => /\ copying # NotCopying => copying = now /\ now \in DOMAIN disk /\ ~Busy
               /\ \A a \in Agers : agers[a].pc # "idle" =>
                    /\ copying = NotCopying /\ now \in DOMAIN disk /\ disk[now]
                    /\ now \notin ToSet(agers[a].todo)
               /\ kept => \E f \in DOMAIN disk : disk[f]
  BY DEF RInv, CopyIsNewest, AgersSpareNewest, AlwaysABackup
<1>5. CASE Passes
  <2>1. RTypeOK'
    <3>1. now' \in Nat \ {0} /\ DOMAIN disk \subseteq 1..now'
      BY <1>1, <1>5 DEF Passes
    <3>2. late' \in BOOLEAN
      BY <1>1, <1>5 DEF Passes, Busy
    <3> QED BY <1>1, <1>2, <1>5, <3>1, <3>2 DEF Passes, RTypeOK
  <2>2. CopyIsNewest' /\ AgersSpareNewest' /\ AlwaysABackup'
    BY <1>4, <1>5 DEF Passes, CopyIsNewest, AgersSpareNewest, AlwaysABackup, Busy
  <2> QED BY <2>1, <2>2 DEF RInv
<1>6. CASE CopyBegins
  <2> DEFINE d == Put(disk, now, FALSE)
  <2>1. /\ d \in [DOMAIN disk \cup {now} -> BOOLEAN]
        /\ now \notin DOMAIN disk /\ \A f \in DOMAIN disk : d[f] = disk[f]
    BY <1>1, <1>6, PutType DEF CopyBegins, Put
  <2>2. disk' = d
    BY <1>6 DEF CopyBegins
  <2> HIDE DEF d
  <2>3. RTypeOK'
    <3>1. DOMAIN d \subseteq 1..now
      BY <1>1, <2>1
    <3>2. late' \in BOOLEAN /\ copying' = now
      BY <1>1, <1>6 DEF CopyBegins, Busy
    <3> QED BY <1>1, <1>2, <1>6, <2>1, <2>2, <3>1, <3>2 DEF CopyBegins, RTypeOK
  <2>4. CopyIsNewest' /\ AgersSpareNewest' /\ AlwaysABackup'
    BY <1>4, <1>6, <2>1, <2>2
    DEF CopyBegins, CopyIsNewest, AgersSpareNewest, AlwaysABackup, Busy
  <2> QED BY <2>3, <2>4 DEF RInv
<1>7. CASE CopyEnds
  <2> DEFINE d == Update(disk, copying, TRUE)
  <2>1. /\ DOMAIN d = DOMAIN disk /\ d \in [DOMAIN disk -> BOOLEAN]
        /\ copying \in DOMAIN disk => d[copying]
    BY <1>1 DEF Update
  <2>2. disk' = d /\ copying' = NotCopying /\ copying # NotCopying
    BY <1>7 DEF CopyEnds
  <2>3. PICK a \in Agers : agers[a].pc = "idle"
                         /\ agers' = [agers EXCEPT ![a] = [Idle EXCEPT !.pc = "size"]]
    BY <1>7 DEF CopyEnds
  <2> DEFINE started == [Idle EXCEPT !.pc = "size"]
  <2>4. /\ started \in [pc : Stages, todo : Seq(Nat), total : {started.total},
                        seen : {started.seen}, at : Nat]
        /\ started.todo = <<>> /\ ToSet(<<>>) = {}
    BY <1>3 DEF Stages, ToSet
  <2> HIDE DEF d, started
  <2>5. /\ agers'[a] = started /\ DOMAIN agers' = Agers
        /\ \A b \in Agers : b # a => agers'[b] = agers[b]
    BY <1>1, <2>3 DEF started
  <2>6. RTypeOK'
    <3>1. agers' = [b \in Agers |-> agers'[b]]
      BY <1>1, <2>3
    <3>2. copying' \in Nat
      BY <2>2 DEF NotCopying
    <3> QED BY <1>1, <1>2, <1>7, <2>1, <2>2, <2>4, <2>5, <3>1, <3>2 DEF CopyEnds, RTypeOK
  <2>7. CopyIsNewest' /\ AgersSpareNewest' /\ AlwaysABackup'
    <3>1. ~late => copying = now /\ now \in DOMAIN disk /\ d[now]
                   /\ \A b \in Agers : agers[b].pc = "idle"
      BY <1>4, <2>1, <2>2 DEF Busy
    <3>2. late' = late /\ now' = now
      BY <1>7 DEF CopyEnds
    <3>3. CopyIsNewest'
      BY <2>2 DEF CopyIsNewest
    <3>4. AgersSpareNewest'
      <4> SUFFICES ASSUME NEW b \in Agers, ~late, agers'[b].pc # "idle"
          PROVE  now \in DOMAIN d /\ d[now] /\ now \notin ToSet(agers'[b].todo)
        BY <2>2, <3>2 DEF AgersSpareNewest
      <4>1. b = a
        BY <2>5, <3>1
      <4> QED BY <2>1, <2>4, <2>5, <3>1, <4>1
    <3>5. AlwaysABackup'
      BY <2>1, <2>2, <3>1, <3>2 DEF AlwaysABackup
    <3> QED BY <3>3, <3>4, <3>5
  <2> QED BY <2>6, <2>7 DEF RInv
<1>8. CASE CopyFails
  <2>1. RTypeOK'
    BY <1>1, <1>2, <1>8 DEF CopyFails, RTypeOK, NotCopying
  <2>2. CopyIsNewest' /\ AgersSpareNewest' /\ AlwaysABackup'
    BY <1>4, <1>8 DEF CopyFails, CopyIsNewest, AgersSpareNewest, AlwaysABackup, Busy
  <2> QED BY <2>1, <2>2 DEF RInv
<1>9. CASE ServerDies
  <2>1. \A a \in Agers : agers'[a] = Idle
    BY <1>9 DEF ServerDies
  <2>2. RTypeOK'
    <3>1. DOMAIN agers' = Agers /\ agers' = [b \in Agers |-> agers'[b]]
      BY <1>9 DEF ServerDies
    <3>2. copying' \in Nat
      BY <1>9 DEF ServerDies, NotCopying
    <3> QED BY <1>1, <1>3, <1>9, <2>1, <3>1, <3>2 DEF ServerDies, RTypeOK
  <2>3. CopyIsNewest' /\ AgersSpareNewest' /\ AlwaysABackup'
    BY <1>3, <1>4, <1>9, <2>1 DEF ServerDies, CopyIsNewest, AgersSpareNewest, AlwaysABackup
  <2> QED BY <2>2, <2>3 DEF RInv
<1> DEFINE AgerType(r) == r \in [pc : Stages, todo : Seq(Nat), total : {r.total},
                               seen : {r.seen}, at : Nat]
\* An ager moves on, and names among what is left to do none but older files.
<1>10. ASSUME NEW a \in Agers, agers[a].pc # "idle", NEW r, AgerType(r),
              agers' = [agers EXCEPT ![a] = r],
              ~late => now \notin ToSet(r.todo) \/ r.pc = "idle",
              disk' \in [DOMAIN disk' -> BOOLEAN], DOMAIN disk' \subseteq DOMAIN disk,
              ~late => now \in DOMAIN disk' /\ disk'[now] = disk[now],
              UNCHANGED <<now, policy, copying, kept, late>>
       PROVE  RInv'
  <2>1. /\ agers'[a] = r /\ DOMAIN agers' = Agers
        /\ \A b \in Agers : b # a => agers'[b] = agers[b]
        /\ agers' = [b \in Agers |-> agers'[b]]
    BY <1>1, <1>10
  <2>2. RTypeOK'
    <3>1. \A b \in Agers : AgerType(agers'[b])
      BY <1>2, <1>10, <2>1
    <3> HIDE DEF AgerType
    <3>2. DOMAIN disk' \subseteq 1..now
      BY <1>1, <1>10
    <3>3. \A b \in Agers : agers'[b] \in [pc : Stages, todo : Seq(Nat), total : {agers'[b].total},
                                         seen : {agers'[b].seen}, at : Nat]
      BY <3>1 DEF AgerType
    <3> QED BY <1>1, <1>10, <2>1, <3>2, <3>3 DEF RTypeOK
  <2> HIDE DEF AgerType
  <2>3. ~late => copying = NotCopying /\ now \in DOMAIN disk /\ disk[now]
    BY <1>4, <1>10
  <2>4. CopyIsNewest' /\ AlwaysABackup'
    BY <1>10, <2>3 DEF CopyIsNewest, AlwaysABackup
  <2>5. AgersSpareNewest'
    <3> SUFFICES ASSUME NEW b \in Agers, ~late, agers'[b].pc # "idle"
        PROVE  now \notin ToSet(agers'[b].todo)
      BY <1>10, <2>3 DEF AgersSpareNewest
    <3>1. CASE b = a
      BY <1>10, <2>1, <3>1
    <3>2. CASE b # a
      BY <1>4, <2>1, <3>2
    <3> QED BY <3>1, <3>2
  <2> QED BY <2>2, <2>4, <2>5 DEF RInv
<1>11. ASSUME NEW a \in Agers, SizeLists(a) PROVE RInv'
  <2> DEFINE seen == [f \in DOMAIN disk |-> SizeOf(f)]
             over == policy.size > 0 /\ Total(DOMAIN disk) > policy.size
             todo == IF over THEN Candidates(DOMAIN seen, now) ELSE <<>>
             r == [pc |-> "thin", todo |-> todo, total |-> Total(DOMAIN disk),
                   seen |-> seen, at |-> now]
  <2>1. agers' = [agers EXCEPT ![a] = r] /\ agers[a].pc # "idle"
    BY <1>11 DEF SizeLists
  <2>2. todo \in Seq(DOMAIN disk \ {now})
    <3>1. Candidates(DOMAIN disk, now) \in Seq(DOMAIN disk \ {now})
      BY <1>1, CandidatesByDensity
    <3>2. todo = <<>> \/ todo = Candidates(DOMAIN disk, now)
      OBVIOUS
    <3>3. <<>> \in Seq(DOMAIN disk \ {now})
      OBVIOUS
    <3> HIDE DEF todo
    <3> QED BY <3>1, <3>2, <3>3
  <2> HIDE DEF seen, over, todo
  <2>3. todo \in Seq(Nat) /\ now \notin ToSet(todo)
    <3>1. DOMAIN disk \ {now} \subseteq Nat
      BY <1>1
    <3>2. \A i \in DOMAIN todo : todo[i] \in DOMAIN disk \ {now}
      BY <2>2
    <3>3. now \notin ToSet(todo)
      BY <3>2 DEF ToSet
    <3> QED BY <2>2, <3>1, <3>3, SeqMonotonic
  <2>4. AgerType(r) /\ r.todo = todo
    BY <1>1, <2>3 DEF Stages
  <2> HIDE DEF r
  <2>5. disk' = disk /\ UNCHANGED <<now, policy, copying, kept, late>>
    BY <1>11 DEF SizeLists
  <2> HIDE DEF AgerType
  <2> QED BY <1>1, <1>4, <1>10, <2>1, <2>3, <2>4, <2>5
<1>12. ASSUME NEW a \in Agers, Thin(a) PROVE RInv'
  <2> DEFINE f == Head(agers[a].todo)
             left == IF f \in DOMAIN disk THEN agers[a].total - agers[a].seen[f]
                     ELSE agers[a].total
             r == [agers[a] EXCEPT !.todo = Tail(@), !.total = left]
  <2>1. agers' = [agers EXCEPT ![a] = r] /\ agers[a].pc # "idle" /\ agers[a].todo # <<>>
    BY <1>12 DEF Thin
  <2>2. agers[a].todo \in Seq(Nat)
    BY <1>2
  <2>3. Tail(agers[a].todo) \in Seq(Nat) /\ f \in ToSet(agers[a].todo)
        /\ ToSet(Tail(agers[a].todo)) \subseteq ToSet(agers[a].todo)
    BY <2>1, <2>2, TailMembers
  <2>4. disk' = Without(disk, {f}) /\ UNCHANGED <<now, policy, copying, kept, late>>
    BY <1>12 DEF Thin
  <2> HIDE DEF f, left
  <2>5. AgerType(r) /\ r.todo = Tail(agers[a].todo)
    BY <1>2, <2>3
  <2>6. ~late => now \in DOMAIN disk /\ now # f /\ now \notin ToSet(r.todo)
    BY <1>4, <2>1, <2>3, <2>5
  <2>7. /\ DOMAIN disk' = DOMAIN disk \ {f} /\ disk' \in [DOMAIN disk \ {f} -> BOOLEAN]
        /\ \A g \in DOMAIN disk \ {f} : disk'[g] = disk[g]
    <3> DEFINE rest == Without(disk, {f})
    <3>1. /\ DOMAIN rest = DOMAIN disk \ {f} /\ rest \in [DOMAIN disk \ {f} -> BOOLEAN]
          /\ \A g \in DOMAIN disk \ {f} : rest[g] = disk[g]
      BY <1>1, RemovalKeeps
    <3>2. disk' = rest
      BY <2>4
    <3> HIDE DEF rest
    <3> QED BY <3>1, <3>2
  <2> HIDE DEF r, AgerType
  <2> QED BY <1>10, <2>1, <2>4, <2>5, <2>6, <2>7
<1>13. ASSUME NEW a \in Agers, CountLists(a) PROVE RInv'
  <2> DEFINE names == OldestFirst(DOMAIN disk)
             excess == IF policy.count > 0 /\ Len(names) > policy.count
                       THEN Len(names) - policy.count ELSE 0
             r == [Idle EXCEPT !.pc = "prune", !.todo = SubSeq(names, 1, excess)]
  <2>1. agers' = [agers EXCEPT ![a] = r] /\ agers[a].pc # "idle"
    BY <1>13 DEF CountLists
  <2>2. /\ names \in Seq(DOMAIN disk) /\ ToSet(names) = DOMAIN disk /\ Len(names) \in Nat
        /\ \A i, j \in 1..Len(names) : i < j => names[i] < names[j]
    BY <1>1, OldestFirstMembers
  <2>3. policy.count \in Nat
    BY <1>1, RetentionAssumption
  <2> HIDE DEF names
  <2>4. excess \in 0..Len(names) /\ (excess = 0 \/ excess < Len(names))
    <3>1. CASE policy.count > 0 /\ Len(names) > policy.count
      BY <2>2, <2>3, <3>1
    <3>2. CASE ~(policy.count > 0 /\ Len(names) > policy.count)
      BY <2>2, <3>2
    <3> QED BY <3>1, <3>2
  <2> HIDE DEF excess
  <2>5. /\ SubSeq(names, 1, excess) \in Seq(DOMAIN disk)
        /\ now \notin ToSet(SubSeq(names, 1, excess))
    <3> DEFINE sub == SubSeq(names, 1, excess)
    <3>1. Len(sub) = excess /\ DOMAIN sub = 1..excess /\ \A i \in 1..excess : sub[i] = names[i]
      BY <2>2, <2>4
    <3>2. \A i \in 1..Len(names) : names[i] \in DOMAIN disk /\ names[i] \in 1..now
      <4>1. \A i \in 1..Len(names) : names[i] \in DOMAIN disk
        BY <2>2
      <4> QED BY <1>1, <4>1
    <3> HIDE DEF sub
    <3>3. ASSUME NEW i \in 1..excess, sub[i] = now PROVE FALSE
      <4>1. i \in 1..Len(names) /\ Len(names) \in 1..Len(names) /\ i < Len(names)
        BY <2>2, <2>4
      <4>2. names[i] = now /\ names[i] < names[Len(names)] /\ names[Len(names)] \in 1..now
        BY <2>2, <3>1, <3>2, <3>3, <4>1
      <4> QED BY <1>1, <4>2
    <3>4. now \notin ToSet(sub)
      BY <3>1, <3>3 DEF ToSet
    <3>5. sub \in [1..excess -> DOMAIN disk] /\ excess \in Nat
      <4>1. \A i \in 1..excess : i \in 1..Len(names)
        BY <2>2, <2>4
      <4>2. sub = [i \in 1..excess |-> names[i]]
        BY <2>2, <2>4 DEF sub
      <4> QED BY <2>4, <3>2, <4>1, <4>2
    <3>6. sub \in Seq(DOMAIN disk)
      BY <3>5, SeqDef
    <3> QED BY <3>4, <3>6 DEF sub
  <2>6. SubSeq(names, 1, excess) \in Seq(Nat)
    <3>1. DOMAIN disk \subseteq Nat
      BY <1>1
    <3> QED BY <2>5, <3>1, SeqMonotonic
  <2>7. AgerType(r) /\ r.todo = SubSeq(names, 1, excess)
    BY <1>3, <2>6 DEF Stages
  <2> HIDE DEF r, AgerType
  <2>8. disk' = disk /\ UNCHANGED <<now, policy, copying, kept, late>>
    BY <1>13 DEF CountLists
  <2> QED BY <1>1, <1>4, <1>10, <2>1, <2>5, <2>7, <2>8
<1>14. ASSUME NEW a \in Agers, AgeLists(a) PROVE RInv'
  <2> DEFINE old == {f \in DOMAIN disk : policy.age > 0 /\ f + policy.age < now}
             r == [agers[a] EXCEPT !.pc = "expire", !.todo = OldestFirst(old)]
  <2>1. agers' = [agers EXCEPT ![a] = r] /\ agers[a].pc # "idle"
    BY <1>14 DEF AgeLists
  <2>2. policy.age \in Nat
    BY <1>1, RetentionAssumption
  <2>3. old \subseteq DOMAIN disk /\ old \subseteq 1..now /\ old \subseteq Nat /\ now \notin old
    BY <1>1, <2>2
  <2> HIDE DEF old
  <2>4. OldestFirst(old) \in Seq(old) /\ ToSet(OldestFirst(old)) = old
    BY <1>1, <2>3, OldestFirstMembers
  <2>5. OldestFirst(old) \in Seq(Nat)
    BY <2>3, <2>4, SeqMonotonic
  <2>6. AgerType(r) /\ r.todo = OldestFirst(old)
    BY <1>2, <2>5 DEF Stages
  <2> HIDE DEF r, AgerType
  <2>7. disk' = disk /\ UNCHANGED <<now, policy, copying, kept, late>>
    BY <1>14 DEF AgeLists
  <2> QED BY <1>1, <1>4, <1>10, <2>1, <2>3, <2>4, <2>6, <2>7
<1>15. ASSUME NEW a \in Agers, Prune(a) PROVE RInv'
  <2> DEFINE f == Head(agers[a].todo)
             r == [agers[a] EXCEPT !.todo = Tail(@)]
  <2>1. agers' = [agers EXCEPT ![a] = r] /\ agers[a].pc # "idle" /\ agers[a].todo # <<>>
    BY <1>15 DEF Prune
  <2>2. agers[a].todo \in Seq(Nat)
    BY <1>2
  <2>3. Tail(agers[a].todo) \in Seq(Nat) /\ f \in ToSet(agers[a].todo)
        /\ ToSet(Tail(agers[a].todo)) \subseteq ToSet(agers[a].todo)
    BY <2>1, <2>2, TailMembers
  <2>4. disk' = Without(disk, {f}) /\ UNCHANGED <<now, policy, copying, kept, late>>
    BY <1>15 DEF Prune
  <2> HIDE DEF f
  <2>5. AgerType(r) /\ r.todo = Tail(agers[a].todo)
    BY <1>2, <2>3
  <2>6. ~late => now \in DOMAIN disk /\ now # f /\ now \notin ToSet(r.todo)
    BY <1>4, <2>1, <2>3, <2>5
  <2>7. /\ DOMAIN disk' = DOMAIN disk \ {f} /\ disk' \in [DOMAIN disk \ {f} -> BOOLEAN]
        /\ \A g \in DOMAIN disk \ {f} : disk'[g] = disk[g]
    <3> DEFINE rest == Without(disk, {f})
    <3>1. /\ DOMAIN rest = DOMAIN disk \ {f} /\ rest \in [DOMAIN disk \ {f} -> BOOLEAN]
          /\ \A g \in DOMAIN disk \ {f} : rest[g] = disk[g]
      BY <1>1, RemovalKeeps
    <3>2. disk' = rest
      BY <2>4
    <3> HIDE DEF rest
    <3> QED BY <3>1, <3>2
  <2> HIDE DEF r, AgerType
  <2> QED BY <1>10, <2>1, <2>4, <2>5, <2>6, <2>7
<1>16. ASSUME NEW a \in Agers, AgerEnds(a) PROVE RInv'
  <2>1. agers' = [agers EXCEPT ![a] = Idle] /\ agers[a].pc # "idle"
    BY <1>16 DEF AgerEnds
  <2>2. disk' = disk /\ UNCHANGED <<now, policy, copying, kept, late>>
    BY <1>16 DEF AgerEnds
  <2>3. AgerType(Idle)
    BY <1>3
  <2> HIDE DEF AgerType
  <2> QED BY <1>1, <1>3, <1>4, <1>10, <2>1, <2>2, <2>3
<1>17. CASE UNCHANGED rvars
  BY <1>1, <1>2, <1>4, <1>17
  DEF rvars, RInv, RTypeOK, CopyIsNewest, AgersSpareNewest, AlwaysABackup, Busy
<1> QED BY <1>5, <1>6, <1>7, <1>8, <1>9, <1>11, <1>12, <1>13, <1>14, <1>15, <1>16, <1>17
        DEF RetentionNext

\* Once a backup has been completed there is a complete one.
THEOREM ABackupRemains == RetentionSpec => []AlwaysABackup
<1>1. RetentionSpec => []RInv
  BY RetentionBegins, RetentionSteps, PTL DEF RetentionSpec
<1>2. RInv => AlwaysABackup
  BY DEF RInv
<1> QED BY <1>1, <1>2, PTL

\* The plan of a goroutine at its thinning, at the time t, for the files that are there.
PlanIsByDensity(ager, t, files) ==
  LET seen == DOMAIN ager.seen IN
  ager.pc = "thin" /\ ager.todo # <<>> =>
    /\ seen \subseteq 1..ager.at /\ ager.at <= t
    /\ ByDensity(ager.todo, seen, ager.at)
    /\ ~Overlooks(ager.todo, seen, ager.at, files)

PlansAreByDensity == \A a \in Agers : PlanIsByDensity(agers[a], now, DOMAIN disk)

\* Files may go, and a backup may begin: it is not among those the plan was made for.
LEMMA PlanStillByDensity ==
  ASSUME NEW ager, ager.at \in Nat, NEW t \in Nat, NEW u \in Nat, t <= u,
         NEW files, NEW later, later \subseteq files \cup {u}, PlanIsByDensity(ager, t, files)
  PROVE  PlanIsByDensity(ager, u, later)
<1> DEFINE seen == DOMAIN ager.seen
<1> SUFFICES ASSUME ager.pc = "thin", ager.todo # <<>>
    PROVE  /\ seen \subseteq 1..ager.at /\ ager.at <= u
           /\ ByDensity(ager.todo, seen, ager.at)
           /\ ~Overlooks(ager.todo, seen, ager.at, later)
  BY DEF PlanIsByDensity
<1>1. /\ seen \subseteq 1..ager.at /\ ager.at <= t
      /\ ByDensity(ager.todo, seen, ager.at)
      /\ ~Overlooks(ager.todo, seen, ager.at, files)
  BY DEF PlanIsByDensity
<1> HIDE DEF seen
<1>2. ASSUME NEW g \in seen \cap later, HoursOld(g, ager.at) >= 1 PROVE g \in files
  <2>1. g \in 1..ager.at /\ g # ager.at
    BY <1>1, <1>2, Ages
  <2>2. g # u
    BY <1>1, <2>1
  <2> QED BY <2>2
<1>3. ~Overlooks(ager.todo, seen, ager.at, later)
  BY <1>1, <1>2 DEF Overlooks
<1>4. ager.at <= u
  BY <1>1
<1> QED BY <1>1, <1>3, <1>4

LEMMA PlanSteps == RInv /\ PlansAreByDensity /\ [RetentionNext]_rvars => PlansAreByDensity'
<1> SUFFICES ASSUME RInv, PlansAreByDensity, [RetentionNext]_rvars, NEW b \in Agers
    PROVE  PlanIsByDensity(agers'[b], now', DOMAIN disk')
  BY DEF PlansAreByDensity
<1>1. /\ now \in Nat \ {0} /\ DOMAIN disk \subseteq 1..now /\ disk \in [DOMAIN disk -> BOOLEAN]
      /\ DOMAIN agers = Agers /\ agers[b].at \in Nat /\ agers[b].todo \in Seq(Nat)
  BY DEF RInv, RTypeOK
<1>2. PlanIsByDensity(agers[b], now, DOMAIN disk)
  BY DEF PlansAreByDensity
\* A goroutine that does nothing meanwhile keeps its plan; ...
<1>3. ASSUME agers'[b] = agers[b], now' \in Nat, now <= now',
             DOMAIN disk' \subseteq DOMAIN disk \cup {now'}
      PROVE  PlanIsByDensity(agers'[b], now', DOMAIN disk')
  BY <1>1, <1>2, <1>3, PlanStillByDensity
\* ... one that is not thinning has none.
<1>4. ASSUME agers'[b].pc # "thin" PROVE PlanIsByDensity(agers'[b], now', DOMAIN disk')
  BY <1>4 DEF PlanIsByDensity
<1>5. now <= now
  BY <1>1
<1>6. CASE Passes
  <2>1. now' = now + 1 /\ disk' = disk /\ agers' = agers
    BY <1>6 DEF Passes
  <2>2. now' \in Nat /\ now <= now'
    BY <1>1, <2>1
  <2> QED BY <1>3, <2>1, <2>2
<1>7. CASE CopyBegins
  <2>1. disk' = Put(disk, now, FALSE) /\ agers' = agers /\ now' = now
    BY <1>7 DEF CopyBegins
  <2>2. DOMAIN disk' = DOMAIN disk \cup {now}
    BY <2>1 DEF Put
  <2> QED BY <1>1, <1>3, <1>5, <2>1, <2>2
<1>8. CASE CopyEnds
  <2>1. PICK a \in Agers : agers' = [agers EXCEPT ![a] = [Idle EXCEPT !.pc = "size"]]
    BY <1>8 DEF CopyEnds
  <2>2. disk' = Update(disk, copying, TRUE) /\ now' = now
    BY <1>8 DEF CopyEnds
  <2>3. DOMAIN disk' = DOMAIN disk
    BY <1>1, <2>2 DEF Update
  <2>4. CASE a = b
    BY <1>1, <1>4, <2>1, <2>4 DEF Idle
  <2>5. CASE a # b
    BY <1>1, <1>3, <1>5, <2>1, <2>2, <2>3, <2>5
  <2> QED BY <2>4, <2>5
<1>9. CASE CopyFails
  BY <1>1, <1>3, <1>5, <1>9 DEF CopyFails
<1>10. CASE ServerDies
  BY <1>4, <1>10 DEF ServerDies, Idle
<1>11. ASSUME NEW a \in Agers, SizeLists(a) PROVE PlanIsByDensity(agers'[b], now', DOMAIN disk')
  <2> DEFINE seen == [f \in DOMAIN disk |-> SizeOf(f)]
             over == policy.size > 0 /\ Total(DOMAIN disk) > policy.size
             r == [pc |-> "thin", todo |-> IF over THEN Candidates(DOMAIN seen, now) ELSE <<>>,
                   total |-> Total(DOMAIN disk), seen |-> seen, at |-> now]
  <2>1. agers' = [agers EXCEPT ![a] = r] /\ disk' = disk /\ now' = now
    BY <1>11 DEF SizeLists
  <2>2. /\ ByDensity(Candidates(DOMAIN disk, now), DOMAIN disk, now)
        /\ ~Overlooks(Candidates(DOMAIN disk, now), DOMAIN disk, now, DOMAIN disk)
    BY <1>1, CandidatesByDensity
  <2>3. DOMAIN seen = DOMAIN disk
    OBVIOUS
  <2> HIDE DEF seen, over
  <2>4. PlanIsByDensity(r, now, DOMAIN disk)
    BY <1>1, <1>5, <2>2, <2>3 DEF PlanIsByDensity
  <2> HIDE DEF r
  <2>5. CASE a = b
    BY <1>1, <2>1, <2>4, <2>5
  <2>6. CASE a # b
    BY <1>1, <1>3, <1>5, <2>1, <2>6
  <2> QED BY <2>5, <2>6
<1>12. ASSUME NEW a \in Agers, Thin(a) PROVE PlanIsByDensity(agers'[b], now', DOMAIN disk')
  <2> DEFINE f == Head(agers[a].todo)
             left == IF f \in DOMAIN disk THEN agers[a].total - agers[a].seen[f]
                     ELSE agers[a].total
  <2>1. /\ agers' = [agers EXCEPT ![a].todo = Tail(@), ![a].total = left]
        /\ disk' = Without(disk, {f}) /\ now' = now
        /\ agers[a].pc = "thin" /\ agers[a].todo # <<>>
    BY <1>12 DEF Thin
  <2>2. DOMAIN disk' = DOMAIN disk \ {f}
    BY <2>1, WithoutRows
  <2> HIDE DEF left
  <2>3. CASE a = b
    <3> DEFINE seen == DOMAIN agers[b].seen
               t == agers[b].at
    <3>1. /\ seen \subseteq 1..t /\ t <= now /\ ByDensity(agers[b].todo, seen, t)
          /\ ~Overlooks(agers[b].todo, seen, t, DOMAIN disk)
      BY <1>2, <2>1, <2>3 DEF PlanIsByDensity
    <3>2. /\ ByDensity(Tail(agers[b].todo), seen, t)
          /\ ~Overlooks(Tail(agers[b].todo), seen, t, DOMAIN disk')
      BY <1>1, <2>1, <2>2, <2>3, <3>1, RestByDensity
    <3>3. agers'[b].todo = Tail(agers[b].todo) /\ agers'[b].at = t
          /\ agers'[b].seen = agers[b].seen
      <4>1. /\ agers[b] \in [pc : Stages, todo : Seq(Nat), total : {agers[b].total},
                             seen : {agers[b].seen}, at : Nat]
        BY DEF RInv, RTypeOK
      <4> QED BY <1>1, <2>1, <2>3, <4>1
    <3> QED BY <2>1, <3>1, <3>2, <3>3 DEF PlanIsByDensity
  <2>4. CASE a # b
    BY <1>1, <1>3, <1>5, <2>1, <2>2, <2>4
  <2> QED BY <2>3, <2>4
<1>13. ASSUME NEW a \in Agers, CountLists(a) \/ AgeLists(a) \/ AgerEnds(a)
       PROVE  PlanIsByDensity(agers'[b], now', DOMAIN disk')
  <2>1. disk' = disk /\ now' = now /\ (a # b => agers'[b] = agers[b])
    BY <1>1, <1>13 DEF CountLists, AgeLists, AgerEnds
  <2>2. agers'[a].pc # "thin"
    <3>1. /\ agers[a] \in [pc : Stages, todo : Seq(Nat), total : {agers[a].total},
                           seen : {agers[a].seen}, at : Nat]
      BY DEF RInv, RTypeOK
    <3>2. agers'[a].pc = "prune" \/ agers'[a].pc = "expire" \/ agers'[a].pc = "idle"
      <4>1. CountLists(a) => agers'[a].pc = "prune"
        BY <1>1 DEF CountLists, Idle
      <4>2. AgeLists(a) => agers'[a].pc = "expire"
        BY <1>1, <3>1 DEF AgeLists
      <4>3. AgerEnds(a) => agers'[a].pc = "idle"
        BY <1>1 DEF AgerEnds, Idle
      <4> QED BY <1>13, <4>1, <4>2, <4>3
    <3> QED BY <3>2
  <2> QED BY <1>1, <1>3, <1>4, <1>5, <2>1, <2>2
<1>14. ASSUME NEW a \in Agers, Prune(a) PROVE PlanIsByDensity(agers'[b], now', DOMAIN disk')
  <2>1. /\ disk' = Without(disk, {Head(agers[a].todo)}) /\ now' = now
        /\ agers' = [agers EXCEPT ![a].todo = Tail(@)] /\ agers[a].pc \in {"prune", "expire"}
    BY <1>14 DEF Prune
  <2>2. DOMAIN disk' \subseteq DOMAIN disk
    <3> DEFINE f == Head(agers[a].todo)
    <3>1. DOMAIN Without(disk, {f}) = DOMAIN disk \ {f}
      BY WithoutRows
    <3>2. disk' = Without(disk, {f})
      BY <2>1
    <3> HIDE DEF f
    <3> QED BY <3>1, <3>2
  <2>3. agers'[a].pc # "thin" /\ (a # b => agers'[b] = agers[b])
    <3>1. /\ agers[a] \in [pc : Stages, todo : Seq(Nat), total : {agers[a].total},
                           seen : {agers[a].seen}, at : Nat]
      BY DEF RInv, RTypeOK
    <3> QED BY <1>1, <2>1, <3>1
  <2> QED BY <1>1, <1>3, <1>4, <1>5, <2>1, <2>2, <2>3
<1>15. CASE UNCHANGED rvars
  BY <1>1, <1>3, <1>5, <1>15 DEF rvars
<1> QED BY <1>6, <1>7, <1>8, <1>9, <1>10, <1>11, <1>12, <1>13, <1>14, <1>15 DEF RetentionNext

\* Of all steps it is the removals of the thinning that the documented density is about.
LEMMA ThinningStep ==
  ASSUME RInv, PlansAreByDensity, RetentionNext, NEW a \in Agers, agers[a].pc = "thin",
         disk' # disk, agers'[a].todo # agers[a].todo
  PROVE  ThinsByDensity(a)
<1>1. DOMAIN agers = Agers /\ agers[a].at \in Nat /\ agers[a].todo \in Seq(Nat)
  BY DEF RInv, RTypeOK
<1>2. Thin(a)
  <2>1. ~(Passes \/ CopyFails \/ ServerDies) /\ ~CopyBegins
    BY DEF Passes, CopyFails, ServerDies, CopyBegins
  <2>2. ~CopyEnds
    BY <1>1 DEF CopyEnds
  <2>3. ASSUME NEW b \in Agers PROVE ~(SizeLists(b) \/ CountLists(b) \/ AgeLists(b) \/ AgerEnds(b))
    BY DEF SizeLists, CountLists, AgeLists, AgerEnds
  <2>4. ASSUME NEW b \in Agers PROVE ~Prune(b)
    BY <1>1 DEF Prune
  <2>5. ASSUME NEW b \in Agers, Thin(b) PROVE a = b
    BY <1>1, <2>5 DEF Thin
  <2> QED BY <2>1, <2>2, <2>3, <2>4, <2>5 DEF RetentionNext
<1> DEFINE t == agers[a].at
           seen == DOMAIN agers[a].seen
           f == Head(agers[a].todo)
<1>3. agers[a].todo # <<>>
  BY <1>2 DEF Thin
<1>4. /\ seen \subseteq 1..t /\ ByDensity(agers[a].todo, seen, t)
      /\ ~Overlooks(agers[a].todo, seen, t, DOMAIN disk)
  BY <1>3 DEF PlansAreByDensity, PlanIsByDensity
<1>5. /\ HoursOld(f, t) >= 1
      /\ IsNewest(seen, t, f) /\ HoursOld(f, t) < HoursPerDay =>
           HoursOld(f, t) = LastHour /\ 1 \in Days(seen, t)
      /\ IsNewest(seen, t, f) /\ HoursOld(f, t) >= HoursPerDay =>
           \A g \in seen \cap DOMAIN disk : HoursOld(g, t) >= 1 =>
             IsNewest(seen, t, g) /\ (HoursOld(g, t) >= HoursPerDay => g >= f)
  BY <1>1, <1>3, <1>4, HeadByDensity
<1> QED BY <1>5 DEF ThinsByDensity, IsNewest, Bucket, Day

\* Thinning by size leaves the last hour alone and removes by density: the extras
\* first, the one file of an hour only as a bridge, the oldest day's one file next.
THEOREM ThinningIsByDensity == RetentionSpec => ThinningKeepsDensity
<1>1. RetentionInit => PlansAreByDensity
  BY DEF RetentionInit, PlansAreByDensity, PlanIsByDensity, Idle
<1>2. RetentionSpec => [](RInv /\ PlansAreByDensity)
  BY <1>1, RetentionBegins, RetentionSteps, PlanSteps, PTL DEF RetentionSpec
<1>3. RInv /\ PlansAreByDensity /\ [RetentionNext]_rvars =>
        [\A a \in Agers : agers[a].pc = "thin" /\ disk' # disk /\ agers'[a].todo # agers[a].todo
           => ThinsByDensity(a)]_rvars
  BY ThinningStep
<1> QED BY <1>2, <1>3, PTL DEF RetentionSpec, ThinningKeepsDensity

-----------------------------------------------------------------------------
(* Ingest.                                                                 *)

\* A plan, or an issue made of one, names a pair of P; whatever its text is.
Fields == {"description", "comments", "resolved", "high", "pair"}
Sound(P, r) == DOMAIN r = Fields /\ r = [k \in Fields |-> r[k]] /\ r.pair \in P
AllSound(P, made) == \E S : made \in Seq(S) /\ \A r \in S : Sound(P, r)

PairsAreSound ==
  /\ default \in Storable
  /\ step = "write" => Sound(Storable, plan)
  /\ AllSound(Storable, pending) /\ AllSound(Storable, stored)

\* Pairs are those of the projects listed.
LEMMA ListedPairs ==
  ASSUME NEW i \in DOMAIN Projects, NEW c \in Components(Projects[i])
  PROVE  <<Projects[i].name, c>> \in Pairs
<1>1. Projects[i] \in ToSet(Projects)
  BY DEF ToSet
<1>2. Projects[i].name \in Names /\ c \in Names
  BY <1>1 DEF Names
<1> QED BY <1>1, <1>2 DEF Pairs

LEMMA PairSeqMembers ==
  \A pc \in ToSet(PairSeq) : <<pc[1].name, pc[2]>> \in Pairs
<1> DEFINE Project == [name : STRING, components : Seq(STRING)]
           S == {pc \in Project \X STRING : <<pc[1].name, pc[2]>> \in Pairs}
           lists == [i \in DOMAIN Projects |->
             [c \in DOMAIN Projects[i].components |-> <<Projects[i], Projects[i].components[c]>>]]
<1>1. ASSUME NEW i \in DOMAIN Projects PROVE lists[i] \in Seq(S)
  <2>1. Projects[i] \in Project /\ Projects[i].components \in Seq(STRING)
    <3>1. Projects \in Seq(Project)
      BY IngestAssumption
    <3> HIDE DEF Project
    <3>2. Projects[i] \in Project
      BY <3>1
    <3> QED BY <3>2 DEF Project
  <2> DEFINE cs == Projects[i].components
  <2>2. cs \in Seq(STRING)
    BY <2>1
  <2>3. Len(cs) \in Nat /\ DOMAIN cs = 1..Len(cs) /\ \A c \in 1..Len(cs) : cs[c] \in STRING
    <3> HIDE DEF cs
    <3> QED BY <2>2
  <2>4. ASSUME NEW c \in DOMAIN cs PROVE <<Projects[i], cs[c]>> \in S
    <3>1. cs[c] \in Components(Projects[i])
      BY DEF Components, ToSet
    <3>2. <<Projects[i].name, cs[c]>> \in Pairs
      BY <3>1, ListedPairs
    <3>3. cs[c] \in STRING
      BY <2>3
    <3> HIDE DEF cs, Project
    <3> QED BY <2>1, <3>2, <3>3
  <2>5. lists[i] = [c \in DOMAIN cs |-> <<Projects[i], cs[c]>>]
    OBVIOUS
  <2> HIDE DEF cs, lists, S
  <2>6. lists[i] \in [1..Len(cs) -> S]
    BY <2>3, <2>4, <2>5
  <2> QED BY <2>3, <2>6, SeqDef
<1>2. Len(Projects) \in Nat /\ DOMAIN Projects = 1..Len(Projects)
  BY IngestAssumption
<1> HIDE DEF S
<1>3. lists \in [1..Len(Projects) -> Seq(S)]
  BY <1>1, <1>2
<1> HIDE DEF lists
<1>4. lists \in Seq(Seq(S))
  BY <1>2, <1>3, SeqDef
<1>5. PairSeq \in Seq(S)
  <2>1. FlattenSeq(lists) \in Seq(S)
    BY <1>4, FlattenMembers
  <2> QED BY <2>1 DEF PairSeq, lists
<1>6. \A i \in DOMAIN PairSeq : PairSeq[i] \in S
  BY <1>5
<1> QED BY <1>6 DEF ToSet, S

\* Whatever the scores, the guess is a pair that may be stored, provided the default is one.
LEMMA GuessExists ==
  ASSUME default \in Storable
  PROVE  InferProjectComponent \in Storable
<1> DEFINE pair == {pc \in Best(PairSeq, PairScore) :
                      PairScore[pc] >= MinInferScore /\ ScoreName(pc[2]) > 0}
           project == {p \in Best(Projects, ProjectScore) :
                         ProjectScore[p] >= MinInferScore /\ KeepsDefault(p)}
           pairs == {<<pc[1].name, pc[2]>> : pc \in pair}
<1>1. \A pc \in pair : pc \in ToSet(PairSeq)
  BY DEF Best, ToSet
<1>2. pairs \subseteq Storable
  BY <1>1, PairSeqMembers DEF Storable
<1>3. \A p \in project : <<p.name, default[2]>> \in Storable
  <2> SUFFICES ASSUME NEW p \in project PROVE <<p.name, default[2]>> \in Storable
    OBVIOUS
  <2>1. PICK i \in DOMAIN Projects : p = Projects[i]
    BY DEF Best
  <2>2. ContainsComponentCI(p, default[2]) /\ p \in ToSet(Projects)
    BY <2>1 DEF KeepsDefault, ToSet
  <2>3. p.name \in Names /\ default[2] \in Names \cup Spellings
    BY <2>2 DEF Names, FoldedPairs, Storable, Pairs
  <2> QED BY <2>2, <2>3 DEF FoldedPairs, Storable
<1>4. pair # {} => pairs # {}
  OBVIOUS
<1>5. InferProjectComponent =
        IF pair # {} THEN CHOOSE result \in pairs : TRUE
        ELSE IF project # {} THEN <<(CHOOSE p \in project : TRUE).name, default[2]>>
        ELSE default
  BY DEF InferProjectComponent
<1> HIDE DEF pair, project, pairs
<1>6. pair # {} => (CHOOSE result \in pairs : TRUE) \in Storable
  BY <1>2, <1>4
<1>7. project # {} => <<(CHOOSE p \in project : TRUE).name, default[2]>> \in Storable
  <2>1. project # {} => (CHOOSE p \in project : TRUE) \in project
    OBVIOUS
  <2> QED BY <1>3, <2>1
<1> QED BY <1>5, <1>6, <1>7

\* One more sound issue, or another sound one in its place, and all still are.
LEMMA OneMore ==
  ASSUME NEW P, NEW made, AllSound(P, made), NEW r, Sound(P, r)
  PROVE  /\ Len(made) \in Nat
         /\ AllSound(P, Append(made, r))
         /\ \A i \in 1..Len(made) : Sound(P, made[i]) /\ AllSound(P, [made EXCEPT ![i] = r])
<1>1. PICK S : made \in Seq(S) /\ \A q \in S : Sound(P, q)
  BY DEF AllSound
<1> DEFINE T == S \cup {r}
<1>2. \A q \in T : Sound(P, q)
  BY <1>1
<1>3. made \in Seq(T) /\ r \in T
  BY <1>1, SeqMonotonic
<1> HIDE DEF T, Sound
<1>4. Append(made, r) \in Seq(T) /\ \A i \in 1..Len(made) : [made EXCEPT ![i] = r] \in Seq(T)
  BY <1>3
<1>5. Len(made) \in Nat /\ \A i \in 1..Len(made) : made[i] \in S
  BY <1>1
<1> QED BY <1>1, <1>2, <1>4, <1>5 DEF AllSound

LEMMA SoundMembers ==
  ASSUME NEW P, NEW made, AllSound(P, made), NEW i \in 1..Len(made)
  PROVE  Sound(P, made[i])
<1>1. PICK S : made \in Seq(S) /\ \A q \in S : Sound(P, q)
  BY DEF AllSound
<1> HIDE DEF Sound
<1>2. made[i] \in S
  BY <1>1
<1> QED BY <1>1, <1>2

LEMMA NoneIsSound == \A P : AllSound(P, <<>>)
<1> TAKE P
<1>1. <<>> \in Seq({})
  OBVIOUS
<1>2. ASSUME NEW S, S = {}, <<>> \in Seq(S)
      PROVE  \E T : <<>> \in Seq(T) /\ \A r \in T : Sound(P, r)
  <2> HIDE DEF Sound
  <2> QED BY <1>2
<1>3. \E T : <<>> \in Seq(T) /\ \A r \in T : Sound(P, r)
  BY <1>1, <1>2
<1> QED BY <1>3 DEF AllSound

\* It is its pair that makes a plan sound.
LEMMA StillSound ==
  ASSUME NEW P, NEW r, Sound(P, r), NEW x, NEW y
  PROVE  /\ Sound(P, [r EXCEPT !.comments = x]) /\ Sound(P, [r EXCEPT !.resolved = x])
         /\ Sound(P, [r EXCEPT !.comments = x, !.resolved = y])
BY DEF Sound, Fields

LEMMA IngestBegins == IngestInit => PairsAreSound
<1> SUFFICES ASSUME IngestInit PROVE PairsAreSound
  OBVIOUS
<1> QED BY NoneIsSound DEF IngestInit, PairsAreSound, Defaults, Storable

LEMMA IngestSteps == PairsAreSound /\ [IngestNext]_ivars => PairsAreSound'
<1> SUFFICES ASSUME PairsAreSound, [IngestNext]_ivars PROVE PairsAreSound'
  OBVIOUS
<1> DEFINE P == Storable
<1>1. default \in P /\ (step = "write" => Sound(P, plan)) /\ AllSound(P, pending) /\ AllSound(P, stored)
  BY DEF PairsAreSound
<1>0. default' = default /\ Storable' = P
  BY DEF IngestNext, AddLine, BuildIngestPlan, CreateIssue, CreateComment, Resolve, Commit,
         Rollback, ivars, Storable, Pairs, FoldedPairs
<1> HIDE DEF P
<1>2. step = "write" => \A i \in 1..Batch : Sound(P, Plans[i])
  <2> SUFFICES ASSUME step = "write", NEW i \in 1..Batch PROVE Sound(P, Plans[i])
    OBVIOUS
  <2>1. Plans[i] = IF i = 1 THEN plan
                   ELSE [NoPlan EXCEPT !.description = <<1>>, !.pair = default]
    BY DEF Plans
  <2>2. DOMAIN NoPlan = Fields /\ NoPlan = [k \in Fields |-> NoPlan[k]]
    BY DEF NoPlan, Fields
  <2> HIDE DEF NoPlan
  <2>3. Sound(P, [NoPlan EXCEPT !.description = <<1>>, !.pair = default])
    BY <1>1, <2>2 DEF Sound, Fields
  <2> QED BY <1>0, <1>1, <2>1, <2>3
<1>3. CASE UNCHANGED <<default, step, plan, pending, stored>>
  BY <1>0, <1>1, <1>3 DEF PairsAreSound
<1>4. CASE BuildIngestPlan
  <2>1. UNCHANGED <<default, pending, stored>>
    BY <1>4 DEF BuildIngestPlan
  <2>2. step' = "write" =>
          plan' = [description |-> Description,
                   comments |-> LET c == Comments IN [s \in DOMAIN c |-> c[s].lines],
                   resolved |-> DetectStatus, high |-> DetectPriority,
                   pair |-> InferProjectComponent]
    BY <1>4 DEF BuildIngestPlan
  <2>3. InferProjectComponent \in P
    BY <1>1, GuessExists DEF P
  <2>4. step' = "write" => Sound(P, plan')
    BY <2>2, <2>3 DEF Sound, Fields
  <2> QED BY <1>0, <1>1, <2>1, <2>4 DEF PairsAreSound
<1>5. CASE CreateIssue
  <2> DEFINE issue == [Plans[Len(pending) + 1] EXCEPT !.comments = <<>>, !.resolved = FALSE]
  <2>1. step = "write" /\ Len(pending) < Batch /\ pending' = Append(pending, issue)
        /\ UNCHANGED <<default, step, plan, stored>>
    BY <1>5 DEF CreateIssue
  <2>2. Len(pending) \in Nat /\ Batch \in Nat
    BY <1>1, <2>1, OneMore, IngestAssumption
  <2>3. Sound(P, Plans[Len(pending) + 1])
    BY <1>2, <2>1, <2>2
  <2>4. Sound(P, issue)
    BY <2>3, StillSound
  <2> HIDE DEF issue
  <2>5. AllSound(P, pending')
    BY <1>1, <2>1, <2>4, OneMore
  <2> QED BY <1>0, <1>1, <2>1, <2>5 DEF PairsAreSound
<1>6. CASE CreateComment
  <2> DEFINE n == Len(pending)
             issue == [pending[n] EXCEPT !.comments = Append(@, Planned.comments[Len(@) + 1])]
  <2>1. pending # <<>> /\ pending' = [pending EXCEPT ![n] = issue]
        /\ UNCHANGED <<default, step, plan, stored>>
    BY <1>6 DEF CreateComment, Uncommented
  <2>2. n \in 1..n
    <3>1. PICK S : pending \in Seq(S)
      BY <1>1 DEF AllSound
    <3> QED BY <2>1, <3>1
  <2>3. Sound(P, pending[n])
    <3> HIDE DEF Sound
    <3> QED BY <1>1, <2>2, SoundMembers
  <2> HIDE DEF n
  <2>4. Sound(P, issue)
    BY <2>3, StillSound
  <2> HIDE DEF issue
  <2>5. AllSound(P, pending')
    BY <1>1, <2>1, <2>2, <2>4, OneMore DEF n
  <2> QED BY <1>0, <1>1, <2>1, <2>5 DEF PairsAreSound
<1>7. CASE Resolve
  <2> DEFINE n == Len(pending)
             issue == [pending[n] EXCEPT !.resolved = TRUE]
  <2>1. pending # <<>> /\ pending' = [pending EXCEPT ![n] = issue]
        /\ UNCHANGED <<default, step, plan, stored>>
    BY <1>7 DEF Resolve, Unresolved
  <2>2. n \in 1..n
    <3>1. PICK S : pending \in Seq(S)
      BY <1>1 DEF AllSound
    <3> QED BY <2>1, <3>1
  <2>3. Sound(P, pending[n])
    <3> HIDE DEF Sound
    <3> QED BY <1>1, <2>2, SoundMembers
  <2> HIDE DEF n
  <2>4. Sound(P, issue)
    BY <2>3, StillSound
  <2> HIDE DEF issue
  <2>5. AllSound(P, pending')
    BY <1>1, <2>1, <2>2, <2>4, OneMore DEF n
  <2> QED BY <1>0, <1>1, <2>1, <2>5 DEF PairsAreSound
<1>8. CASE Commit
  <2>1. step' = "done" /\ stored' = pending /\ UNCHANGED <<default, plan, pending>>
    BY <1>8 DEF Commit
  <2> QED BY <1>0, <1>1, <2>1 DEF PairsAreSound
<1>9. CASE Rollback
  <2>1. step' = "failed" /\ pending' = <<>> /\ UNCHANGED <<default, plan, stored>>
    BY <1>9 DEF Rollback
  <2> QED BY <1>0, <1>1, <2>1, NoneIsSound DEF PairsAreSound
<1> QED BY <1>3, <1>4, <1>5, <1>6, <1>7, <1>8, <1>9 DEF IngestNext, AddLine, ivars

\* Every issue of an ingest has a component of its project, or the default one,
\* which is one up to case.
THEOREM IngestedPairsExist == IngestSpec => []StoredPairsExist
<1>1. IngestSpec => []PairsAreSound
  BY IngestBegins, IngestSteps, PTL DEF IngestSpec
<1>2. PairsAreSound => StoredPairsExist
  <2> SUFFICES ASSUME PairsAreSound PROVE StoredPairsExist
    OBVIOUS
  <2>1. PICK S : stored \in Seq(S) /\ \A r \in S : Sound(Storable, r)
    BY DEF PairsAreSound, AllSound
  <2>2. \A i \in DOMAIN stored : Sound(Storable, stored[i])
    BY <2>1
  <2> QED BY <2>2 DEF StoredPairsExist, Sound
<1> QED BY <1>1, <1>2, PTL

-----------------------------------------------------------------------------
(* How a file is taken apart.                                              *)

\* The lines of a stretch of the file that are not blank.
Text(from, to) == {i \in from..to : ~IsLine(i, "blank")}

LEMMA WrittenMembers ==
  ASSUME NEW from \in Int, NEW to \in Int, from >= 1
  PROVE  /\ Text(from, to) \subseteq Nat /\ IsFiniteSet(Text(from, to))
         /\ Written(from, to) \in Seq(Nat) /\ ToSet(Written(from, to)) = Text(from, to)
         /\ IsAscending(Written(from, to))
<1>1. Text(from, to) \in SUBSET (from..to) /\ IsFiniteSet(from..to)
  BY FS_Interval DEF Text
<1>2. Text(from, to) \subseteq Nat /\ IsFiniteSet(Text(from, to))
  BY <1>1, FS_Subset
<1> DEFINE lines == Written(from, to)
<1>3. lines = Ascending(Text(from, to))
  BY DEF Written, Text
<1> HIDE DEF lines
<1>4. /\ lines \in Seq(Text(from, to)) /\ ToSet(lines) = Text(from, to)
      /\ Len(lines) = Cardinality(Text(from, to)) /\ Cardinality(Text(from, to)) \in Nat
      /\ \A i, j \in 1..Cardinality(Text(from, to)) : i < j => lines[i] < lines[j]
  BY <1>2, <1>3, AscendingMembers
<1>5. lines \in Seq(Nat) /\ IsAscending(lines)
  BY <1>2, <1>4, SeqMonotonic DEF IsAscending
<1> QED BY <1>2, <1>4, <1>5 DEF lines

LEMMA StartIsPlace ==
  ASSUME file \in Seq(Lines)
  PROVE  Start \in Nat \ {0}
<1> DEFINE T == {i \in 1..(Len(file) + 1) : i <= Len(file) => ~IsLine(i, "blank")}
           Is(i) == /\ \A j \in 1..(i - 1) : IsLine(j, "blank")
                    /\ i <= Len(file) => ~IsLine(i, "blank")
<1>1. Len(file) \in Nat
  OBVIOUS
<1>2. T \subseteq Nat /\ Len(file) + 1 \in T
  BY <1>1
<1>3. PICK i \in T : \A j \in T : i <= j
  <2> HIDE DEF T
  <2> QED BY <1>2, LeastNumber
<1>4. i \in 1..(Len(file) + 1) /\ Is(i)
  <2>1. ASSUME NEW j \in 1..(i - 1) PROVE IsLine(j, "blank")
    <3>1. j \in 1..(Len(file) + 1) /\ ~(i <= j)
      BY <1>1, <1>3
    <3>2. j \notin T
      BY <1>3, <3>1
    <3> QED BY <3>1, <3>2
  <2> QED BY <1>3, <2>1
<1>5. First = CHOOSE k \in 1..(Len(file) + 1) : Is(k)
  BY DEF First
<1> HIDE DEF Is
<1>6. First \in 1..(Len(file) + 1)
  BY <1>4, <1>5
<1>7. Start = First \/ Start = First + 1
  BY DEF Start
<1> QED BY <1>1, <1>6, <1>7

LEMMA BoundariesMembers ==
  ASSUME file \in Seq(Lines)
  PROVE  /\ Boundaries \in Seq(Nat) /\ Len(Boundaries) \in Nat
         /\ DOMAIN Boundaries = 1..Len(Boundaries)
         /\ ToSet(Boundaries) = {i \in Start..Len(file) : Boundary(i)}
         /\ \A s \in 1..Len(Boundaries) :
              Boundaries[s] \in Start..Len(file) /\ Boundary(Boundaries[s])
         /\ \A s, r \in 1..Len(Boundaries) : s < r => Boundaries[s] < Boundaries[r]
<1> DEFINE at == {i \in Start..Len(file) : Boundary(i)}
           from == Boundaries
<1>1. Start \in Nat \ {0} /\ Len(file) \in Nat
  BY StartIsPlace
<1>2. at \in SUBSET (Start..Len(file)) /\ IsFiniteSet(Start..Len(file))
  BY <1>1, FS_Interval
<1>3. at \subseteq Nat /\ IsFiniteSet(at)
  BY <1>1, <1>2, FS_Subset
<1>4. from = Ascending(at)
  BY DEF Boundaries
<1>5. \A i \in at : i \in Start..Len(file) /\ Boundary(i)
  OBVIOUS
<1> HIDE DEF from, at
<1>6. /\ from \in Seq(at) /\ ToSet(from) = at
      /\ Len(from) = Cardinality(at) /\ Cardinality(at) \in Nat
      /\ \A s, r \in 1..Cardinality(at) : s < r => from[s] < from[r]
  BY <1>3, <1>4, AscendingMembers
<1>7. from \in Seq(Nat) /\ DOMAIN from = 1..Len(from) /\ \A s \in 1..Len(from) : from[s] \in at
  <2>1. DOMAIN from = 1..Len(from) /\ \A s \in 1..Len(from) : from[s] \in at
    BY <1>6
  <2> QED BY <1>3, <1>6, <2>1, SeqMonotonic
<1> QED BY <1>5, <1>6, <1>7 DEF from, at

\* Where a section ends.
EndOf(s) == IF s < Len(Boundaries) THEN Boundaries[s + 1] - 1 ELSE Len(file)
TextOf(s) == Text(Boundaries[s], EndOf(s))

\* A section is the text from its label up to the next one's.
LEMMA SectionsMembers ==
  ASSUME file \in Seq(Lines)
  PROVE  /\ Sections \in Seq([label : {file[i].label : i \in DOMAIN file}, lines : Seq(Nat)])
         /\ Len(Sections) = Len(Boundaries) /\ DOMAIN Sections = 1..Len(Boundaries)
         /\ \A s \in 1..Len(Boundaries) :
              LET lines == Sections[s].lines IN
              /\ lines \in Seq(Nat) /\ IsAscending(lines) /\ ToSet(lines) = TextOf(s)
              /\ lines[1] = Boundaries[s]
              /\ TextOf(s) \subseteq Start..Len(file)
         /\ \A s, r \in 1..Len(Boundaries) :
              s < r => \A x \in TextOf(s), y \in TextOf(r) : x < y
<1> DEFINE from == Boundaries
           n == Len(Boundaries)
           Labels == {file[i].label : i \in DOMAIN file}
           Lists == Seq(Nat)
<1>1. Start \in Nat \ {0} /\ Len(file) \in Nat /\ DOMAIN file = 1..Len(file)
  BY StartIsPlace
<1>2. /\ n \in Nat /\ DOMAIN from = 1..n
      /\ \A s \in 1..n : from[s] \in Start..Len(file) /\ Boundary(from[s])
      /\ \A s, r \in 1..n : s < r => from[s] < from[r]
  BY BoundariesMembers
<1>3. DOMAIN Sections = 1..n
  BY <1>2 DEF Sections
<1>4. ASSUME NEW s \in 1..n
      PROVE  /\ Sections[s] = [label |-> file[from[s]].label,
                              lines |-> Written(from[s], EndOf(s))]
             /\ Sections[s].lines = Written(from[s], EndOf(s))
  BY <1>2 DEF Sections, EndOf
<1>5. ASSUME NEW s \in 1..n
      PROVE  /\ EndOf(s) \in Nat /\ from[s] \in Nat /\ from[s] >= 1
             /\ from[s] <= EndOf(s) /\ EndOf(s) <= Len(file)
             /\ from[s] \in DOMAIN file
             /\ \A r \in 1..n : s < r => EndOf(s) < from[r]
  <2> HIDE DEF from, n
  <2>1. from[s] \in Nat /\ from[s] >= 1 /\ from[s] <= Len(file) /\ from[s] \in DOMAIN file
    BY <1>1, <1>2
  <2>2. CASE s < n
    <3>1. s + 1 \in 1..n /\ s < s + 1 /\ EndOf(s) = from[s + 1] - 1
      BY <1>2, <2>2 DEF EndOf, from, n
    <3>2. from[s + 1] \in Nat /\ from[s] < from[s + 1] /\ from[s + 1] <= Len(file)
      BY <1>1, <1>2, <3>1
    <3>3. ASSUME NEW r \in 1..n, s < r PROVE from[s + 1] <= from[r] /\ from[r] \in Nat
      <4>1. r = s + 1 \/ s + 1 < r
        BY <1>2, <3>3
      <4>2. from[r] \in Nat
        BY <1>1, <1>2
      <4> QED BY <1>2, <3>1, <3>2, <4>1, <4>2
    <3> QED BY <1>1, <2>1, <3>1, <3>2, <3>3
  <2>3. CASE ~(s < n)
    <3>1. EndOf(s) = Len(file) /\ \A r \in 1..n : ~(s < r)
      BY <1>2, <2>3 DEF EndOf, n
    <3> QED BY <1>1, <2>1, <3>1
  <2> QED BY <2>2, <2>3
<1>6. ASSUME NEW s \in 1..n
      PROVE  /\ Sections[s].lines \in Seq(Nat) /\ IsAscending(Sections[s].lines)
             /\ ToSet(Sections[s].lines) = TextOf(s)
             /\ Sections[s].lines[1] = from[s]
             /\ TextOf(s) \subseteq Start..Len(file)
  <2> DEFINE lines == Sections[s].lines
  <2>1. lines = Written(from[s], EndOf(s))
    BY <1>4
  <2> HIDE DEF lines
  <2>2. lines \in Seq(Nat) /\ ToSet(lines) = Text(from[s], EndOf(s)) /\ IsAscending(lines)
    BY <1>5, <2>1, WrittenMembers
  <2>3. from[s] \in ToSet(lines) /\ \A x \in ToSet(lines) : from[s] <= x /\ x \in Nat
    <3>1. IsLine(from[s], "label")
      BY <1>2 DEF Boundary
    <3> QED BY <1>5, <2>2, <3>1 DEF Text, IsLine
  <2>4. lines[1] = from[s]
    <3>1. DOMAIN lines = 1..Len(lines) /\ Len(lines) \in Nat
      BY <2>2
    <3>2. PICK i \in 1..Len(lines) : lines[i] = from[s]
      BY <2>3, <3>1 DEF ToSet
    <3>3. 1 \in 1..Len(lines) /\ lines[1] \in ToSet(lines)
      BY <3>1, <3>2 DEF ToSet
    <3>4. i = 1 \/ lines[1] < lines[i]
      BY <2>2, <3>1, <3>2, <3>3 DEF IsAscending
    <3> QED BY <1>5, <2>3, <3>2, <3>3, <3>4
  <2>5. Text(from[s], EndOf(s)) \subseteq Start..Len(file)
    <3>1. from[s] >= Start
      BY <1>1, <1>2
    <3> QED BY <1>1, <1>5, <3>1 DEF Text
  <2> QED BY <2>2, <2>4, <2>5 DEF lines, TextOf
<1>7. Sections \in Seq([label : Labels, lines : Lists]) /\ Len(Sections) = n
  <2>1. \A s \in 1..n : Sections[s] \in [label : Labels, lines : Lists]
    <3> SUFFICES ASSUME NEW s \in 1..n PROVE Sections[s] \in [label : Labels, lines : Lists]
      OBVIOUS
    <3>1. file[from[s]].label \in Labels
      BY <1>5
    <3>2. Sections[s].lines \in Lists
      BY <1>6
    <3> HIDE DEF Labels, Lists, from
    <3>3. \A l \in Labels, m \in Lists : [label |-> l, lines |-> m] \in [label : Labels, lines : Lists]
      OBVIOUS
    <3>4. Sections[s] = [label |-> file[from[s]].label, lines |-> Sections[s].lines]
      BY <1>4
    <3> QED BY <3>1, <3>2, <3>3, <3>4
  <2> DEFINE Section == [label : Labels, lines : Lists]
  <2> HIDE DEF Labels, Lists
  <2>2. Sections = [s \in 1..n |-> Sections[s]]
    BY <1>3 DEF Sections
  <2>3. Sections \in [1..n -> [label : Labels, lines : Lists]]
    BY <2>1, <2>2
  <2>4. Sections \in [1..n -> Section] /\ n \in Nat
    BY <1>2, <2>3
  <2> HIDE DEF Section, n
  <2>5. Sections \in Seq(Section)
    BY <2>4, SeqDef
  <2>6. Len(Sections) = n
    BY <1>3, <2>4, <2>5
  <2> QED BY <2>5, <2>6 DEF Section
<1>8. ASSUME NEW s \in 1..n, NEW r \in 1..n, s < r, NEW x \in TextOf(s), NEW y \in TextOf(r)
      PROVE  x < y
  <2>1. EndOf(s) < from[r] /\ x \in from[s]..EndOf(s) /\ y \in from[r]..EndOf(r)
    BY <1>5, <1>8 DEF TextOf, Text
  <2> QED BY <1>5, <2>1
<1> QED BY <1>3, <1>6, <1>7, <1>8

\* Which section is the description; there are others only if it is none.
LEMMA DescriptionPlace ==
  ASSUME file \in Seq(Lines)
  PROVE  /\ DescriptionAt \in 0..Len(Boundaries)
         /\ DescriptionAt = 0 => PreText # <<>> \/ Len(Boundaries) = 0
<1> DEFINE n == Len(Boundaries)
           described == {s \in DOMAIN Sections : Sections[s].label = "description"}
           least == CHOOSE s \in described : \A r \in described : s <= r
<1>1. n \in Nat /\ DOMAIN Sections = 1..n /\ Len(Sections) = n
      /\ Sections \in Seq([label : {file[i].label : i \in DOMAIN file}, lines : Seq(Nat)])
  BY BoundariesMembers, SectionsMembers
<1>2. DescriptionAt = IF described # {} THEN least
                      ELSE IF PreText # <<>> \/ Sections = <<>> THEN 0 ELSE 1
  BY DEF DescriptionAt
<1>3. described \subseteq 1..n /\ described \subseteq Nat
  BY <1>1
<1>4. Sections = <<>> <=> n = 0
  BY <1>1
<1> HIDE DEF described, n
<1>5. described # {} => least \in described
  <2>1. described # {} => \E s \in described : \A r \in described : s <= r
    BY <1>3, LeastNumber
  <2> QED BY <2>1
<1> HIDE DEF least
<1>6. CASE described # {}
  <2>1. DescriptionAt = least /\ least \in 1..n
    BY <1>2, <1>3, <1>5, <1>6
  <2> QED BY <1>1, <2>1 DEF n
<1>7. CASE described = {}
  <2>1. DescriptionAt = IF PreText # <<>> \/ n = 0 THEN 0 ELSE 1
    BY <1>2, <1>4, <1>7
  <2> QED BY <1>1, <2>1 DEF n
<1> QED BY <1>6, <1>7

\* The comments are the other sections.
Skip(k) == IF DescriptionAt # 0 /\ k >= DescriptionAt THEN k + 1 ELSE k

LEMMA CommentsMembers ==
  ASSUME file \in Seq(Lines)
  PROVE  /\ Len(Comments) \in Nat /\ DOMAIN Comments = 1..Len(Comments)
         /\ \A k \in 1..Len(Comments) :
              /\ Skip(k) \in 1..Len(Boundaries) /\ Skip(k) # DescriptionAt
              /\ Comments[k] = Sections[Skip(k)]
         /\ \A s \in 1..Len(Boundaries) :
              s # DescriptionAt => \E k \in 1..Len(Comments) : s = Skip(k)
         /\ \A j, k \in 1..Len(Comments) : j < k => Skip(j) < Skip(k)
<1> DEFINE n == Len(Boundaries)
           d == DescriptionAt
           Section == [label : {file[i].label : i \in DOMAIN file}, lines : Seq(Nat)]
<1>1. n \in Nat /\ Sections \in Seq(Section) /\ Len(Sections) = n /\ d \in 0..n
  BY BoundariesMembers, SectionsMembers, DescriptionPlace
<1> HIDE DEF n, d, Section
<1>2. CASE d = 0
  <2>1. Comments = Sections /\ DOMAIN Sections = 1..n
    BY <1>1, <1>2 DEF Comments, d
  <2>2. \A k \in 1..n : Skip(k) = k
    BY <1>2 DEF Skip, d
  <2> QED BY <1>1, <1>2, <2>1, <2>2 DEF n, d
<1>3. CASE d # 0
  <2>1. d \in 1..Len(Sections) /\ Comments = RemoveAt(Sections, d)
    BY <1>1, <1>3 DEF Comments, d
  <2>2. /\ Len(Comments) = n - 1 /\ DOMAIN Comments = 1..(n - 1)
        /\ \A k \in 1..(n - 1) : Comments[k] = IF k < d THEN Sections[k] ELSE Sections[k + 1]
    BY <1>1, <2>1, RemoveAtPlaces
  <2>3. \A k \in 1..(n - 1) : Skip(k) = IF k < d THEN k ELSE k + 1
    BY <1>1, <1>3 DEF Skip, d
  <2>4. ASSUME NEW k \in 1..(n - 1)
        PROVE  Skip(k) \in 1..n /\ Skip(k) # d /\ Comments[k] = Sections[Skip(k)]
    <3>1. k \in 1..(n - 1) /\ Skip(k) = IF k < d THEN k ELSE k + 1
      BY <2>3
    <3>2. Skip(k) \in 1..n /\ Skip(k) # d
      BY <1>1, <3>1
    <3>3. Comments[k] = Sections[Skip(k)]
      BY <2>2, <3>1
    <3> QED BY <3>2, <3>3
  <2>5. ASSUME NEW s \in 1..n, s # d PROVE \E k \in 1..(n - 1) : s = Skip(k)
    <3>1. CASE s < d
      <4>1. s \in 1..(n - 1) /\ Skip(s) = s
        BY <1>1, <2>3, <3>1
      <4> QED BY <4>1
    <3>2. CASE ~(s < d)
      <4>1. s - 1 \in 1..(n - 1) /\ ~(s - 1 < d) /\ s - 1 + 1 = s
        BY <1>1, <1>3, <2>5, <3>2
      <4>2. Skip(s - 1) = s
        BY <2>3, <4>1
      <4> QED BY <4>1, <4>2
    <3> QED BY <3>1, <3>2
  <2>6. \A j, k \in 1..(n - 1) : j < k => Skip(j) < Skip(k)
    BY <1>1, <2>3
  <2>7. n - 1 \in Nat
    BY <1>1, <1>3
  <2> QED BY <2>2, <2>4, <2>5, <2>6, <2>7 DEF n, d
<1> QED BY <1>2, <1>3

\* What the lines of the comments are, put together.
CommentLines == LET c == Comments IN [s \in DOMAIN c |-> c[s].lines]
Commented == UNION {TextOf(s) : s \in (1..Len(Boundaries)) \ {DescriptionAt}}

LEMMA CommentedMembers ==
  ASSUME file \in Seq(Lines)
  PROVE  /\ CommentLines \in Seq(Seq(Nat)) /\ Len(CommentLines) = Len(Comments)
         /\ FlattenSeq(CommentLines) \in Seq(Nat) /\ IsAscending(FlattenSeq(CommentLines))
         /\ ToSet(FlattenSeq(CommentLines)) = Commented
         /\ \A k \in DOMAIN CommentLines : \E s \in 1..Len(Boundaries) :
              CommentLines[k][1] = Boundaries[s]
<1> DEFINE m == Len(Comments)
           lines == CommentLines
<1>1. /\ m \in Nat /\ DOMAIN Comments = 1..m
      /\ \A k \in 1..m : /\ Skip(k) \in 1..Len(Boundaries) /\ Skip(k) # DescriptionAt
                         /\ Comments[k] = Sections[Skip(k)]
      /\ \A s \in 1..Len(Boundaries) : s # DescriptionAt => \E k \in 1..m : s = Skip(k)
      /\ \A j, k \in 1..m : j < k => Skip(j) < Skip(k)
  BY CommentsMembers
<1>2. DOMAIN lines = 1..m /\ \A k \in 1..m : lines[k] = Sections[Skip(k)].lines
  BY <1>1 DEF CommentLines
<1>3. lines = [k \in 1..m |-> lines[k]]
  BY <1>1 DEF CommentLines
<1> HIDE DEF m, lines
<1>4. \A k \in 1..m : /\ lines[k] \in Seq(Nat) /\ IsAscending(lines[k])
                      /\ ToSet(lines[k]) = TextOf(Skip(k))
                      /\ lines[k][1] = Boundaries[Skip(k)]
  BY <1>1, <1>2, SectionsMembers
<1>5. lines \in Seq(Seq(Nat)) /\ Len(lines) = m
  <2> DEFINE Lists == Seq(Nat)
  <2>1. \A k \in 1..m : lines[k] \in Lists
    BY <1>4
  <2> HIDE DEF Lists
  <2>2. lines \in [1..m -> Lists]
    BY <1>3, <2>1
  <2>3. lines \in Seq(Lists)
    BY <1>1, <2>2, SeqDef
  <2>4. Len(lines) = m
    BY <1>1, <1>2, <2>3
  <2> QED BY <2>3, <2>4 DEF Lists
<1>6. \A j, k \in 1..m : j < k => \A x \in ToSet(lines[j]), y \in ToSet(lines[k]) : x < y
  <2> SUFFICES ASSUME NEW j \in 1..m, NEW k \in 1..m, j < k,
                      NEW x \in ToSet(lines[j]), NEW y \in ToSet(lines[k])
      PROVE  x < y
    OBVIOUS
  <2>1. /\ Skip(j) \in 1..Len(Boundaries) /\ Skip(k) \in 1..Len(Boundaries) /\ Skip(j) < Skip(k)
        /\ x \in TextOf(Skip(j)) /\ y \in TextOf(Skip(k))
    BY <1>1, <1>4
  <2> QED BY <2>1, SectionsMembers
<1>7. /\ FlattenSeq(lines) \in Seq(Nat)
      /\ ToSet(FlattenSeq(lines)) = UNION {ToSet(lines[k]) : k \in 1..m}
  BY <1>5, FlattenMembers
<1>8. IsAscending(FlattenSeq(lines))
  BY <1>4, <1>5, <1>6, FlattenAscending
<1>9. UNION {ToSet(lines[k]) : k \in 1..m} = Commented
  <2>1. \A x : x \in UNION {ToSet(lines[k]) : k \in 1..m} <=> \E k \in 1..m : x \in TextOf(Skip(k))
    BY <1>4
  <2>2. \A x : x \in Commented <=>
          \E s \in 1..Len(Boundaries) : s # DescriptionAt /\ x \in TextOf(s)
    BY DEF Commented
  <2>3. \A x : (\E k \in 1..m : x \in TextOf(Skip(k))) <=>
          \E s \in 1..Len(Boundaries) : s # DescriptionAt /\ x \in TextOf(s)
    BY <1>1
  <2> QED BY <2>1, <2>2, <2>3
<1> QED BY <1>1, <1>2, <1>4, <1>5, <1>7, <1>8, <1>9 DEF m, lines

\* Every line is in the text before the first section, or in one section.
LEMMA TextIsCut ==
  ASSUME file \in Seq(Lines)
  PROVE  LET sections == UNION {TextOf(s) : s \in 1..Len(Boundaries)} IN
         /\ PreText \in Seq(Nat) /\ IsAscending(PreText)
         /\ Text(Start, Len(file)) = ToSet(PreText) \cup sections
         /\ ToSet(PreText) \cap sections = {}
<1> DEFINE n == Len(Boundaries)
           from == Boundaries
           sections == UNION {TextOf(s) : s \in 1..n}
           all == Text(Start, Len(file))
<1>1. /\ Start \in Nat \ {0} /\ Len(file) \in Nat /\ n \in Nat
      /\ \A s \in 1..n : from[s] \in Start..Len(file)
      /\ \A s, r \in 1..n : s < r => from[s] < from[r]
  BY StartIsPlace, BoundariesMembers
<1>2. from = <<>> <=> n = 0
  BY BoundariesMembers
<1>3. CASE n = 0
  <2>1. PreText = Written(Start, Len(file))
    BY <1>2, <1>3 DEF PreText
  <2>2. ToSet(PreText) = all /\ PreText \in Seq(Nat) /\ IsAscending(PreText)
    BY <1>1, <2>1, WrittenMembers
  <2>3. sections = {}
    BY <1>3
  <2> QED BY <2>2, <2>3
<1>4. CASE n # 0
  <2> DEFINE before == Text(Start, from[1] - 1)
  <2> HIDE DEF n
  <2>1. PreText = Written(Start, from[1] - 1) /\ 1 \in 1..n /\ from[1] \in Start..Len(file)
    BY <1>1, <1>2, <1>4 DEF PreText
  <2>2. ToSet(PreText) = before /\ PreText \in Seq(Nat) /\ IsAscending(PreText)
    <3>1. Start \in Int /\ Start >= 1 /\ from[1] - 1 \in Int
      BY <1>1, <2>1
    <3> HIDE DEF from
    <3> QED BY <2>1, <3>1, WrittenMembers
  <2> HIDE DEF from
  <2>3. ASSUME NEW s \in 1..n, NEW x \in TextOf(s) PROVE x \in all /\ x \notin before
    <3>1. from[1] <= from[s] /\ from[s] \in Nat /\ from[1] \in Nat
      <4>1. s = 1 \/ 1 < s
        BY <1>1
      <4>2. from[s] \in Nat /\ from[1] \in Nat
        BY <1>1, <2>1
      <4> QED BY <1>1, <2>1, <4>1, <4>2
    <3>2. x \in from[s]..EndOf(s) /\ ~IsLine(x, "blank")
      BY <2>3 DEF TextOf, Text, from
    <3>3. x \in Start..Len(file)
      BY <2>3, SectionsMembers DEF n
    <3>4. x >= from[s] /\ x \in Int
      BY <1>1, <3>2, <3>3
    <3> QED BY <3>1, <3>2, <3>3, <3>4, <1>1 DEF Text
  <2>4. ASSUME NEW x \in all, x \notin before PROVE \E s \in 1..n : x \in TextOf(s)
    <3>1. x \in Start..Len(file) /\ ~IsLine(x, "blank") /\ x \in Nat
      BY <1>1 DEF Text
    <3>2. from[1] <= x
      BY <1>1, <2>1, <2>4, <3>1 DEF Text
    <3> DEFINE S == {s \in 1..n : from[s] <= x}
    <3>3. S \subseteq 0..n /\ 1 \in S
      BY <1>1, <2>1, <3>2
    <3>4. PICK s \in S : \A r \in S : r <= s
      <4> HIDE DEF S
      <4> QED BY <1>1, <3>3, GreatestNumber
    <3>5. s \in 1..n /\ from[s] <= x
      OBVIOUS
    <3>6. x <= EndOf(s) /\ EndOf(s) \in Nat /\ from[s] \in Nat
      <4>1. CASE s < n
        <5>1. s + 1 \in 1..n /\ ~(s + 1 <= s)
          BY <1>1, <3>5, <4>1
        <5>2. s + 1 \notin S
          BY <3>4, <5>1
        <5>3. ~(from[s + 1] <= x) /\ from[s + 1] \in Nat /\ from[s] \in Nat /\ from[s + 1] >= 1
          BY <1>1, <5>1, <5>2
        <5>4. EndOf(s) = from[s + 1] - 1
          BY <4>1 DEF EndOf, n, from
        <5> QED BY <3>1, <5>3, <5>4
      <4>2. CASE ~(s < n)
        <5>1. EndOf(s) = Len(file)
          BY <4>2 DEF EndOf, n
        <5> QED BY <1>1, <3>1, <3>5, <5>1
      <4> QED BY <4>1, <4>2
    <3>7. x \in TextOf(s)
      BY <3>1, <3>5, <3>6 DEF TextOf, Text, from
    <3> QED BY <3>5, <3>7
  <2>5. before \subseteq all
    BY <1>1, <2>1 DEF Text
  <2>6. all = before \cup sections /\ before \cap sections = {}
    <3>1. \A x : x \in sections <=> \E s \in 1..n : x \in TextOf(s)
      OBVIOUS
    <3> HIDE DEF sections, all, before
    <3> QED BY <2>3, <2>4, <2>5, <3>1
  <2> QED BY <2>2, <2>6 DEF n
<1> QED BY <1>3, <1>4

\* Different sections have no line in common.
LEMMA SectionsApart ==
  ASSUME file \in Seq(Lines), NEW s \in 1..Len(Boundaries), NEW r \in 1..Len(Boundaries), s # r
  PROVE  TextOf(s) \cap TextOf(r) = {}
<1>1. s < r \/ r < s
  BY BoundariesMembers
<1>2. Start \in Nat /\ Len(file) \in Nat
  BY StartIsPlace
<1>3. ASSUME NEW x \in TextOf(s), x \in TextOf(r) PROVE FALSE
  <2>1. x < x /\ x \in Start..Len(file)
    BY <1>1, <1>3, SectionsMembers
  <2> QED BY <1>2, <2>1
<1> QED BY <1>3

\* A section does not begin in a code block that is closed.
LEMMA LabelsOutsideCode ==
  ASSUME file \in Seq(Lines), NEW i \in Start..Len(file), Boundary(i)
  PROVE  ~Closed(i)
<1> DEFINE fences(k) == {j \in Start..k : IsLine(j, "fence")}
<1>1. Start \in Nat \ {0} /\ Len(file) \in Nat
  BY StartIsPlace
<1>2. \A k \in Start..Len(file) :
        FencesTo(Start, k) = Cardinality(fences(k)) /\ IsFiniteSet(fences(k)) /\ FencesTo(Start, k) \in Nat
  <2> SUFFICES ASSUME NEW k \in Start..Len(file)
      PROVE  FencesTo(Start, k) = Cardinality(fences(k)) /\ IsFiniteSet(fences(k))
             /\ FencesTo(Start, k) \in Nat
    OBVIOUS
  <2>1. FencesTo(Start, k) = Cardinality(fences(k))
    BY DEF FencesTo
  <2>2. Start \in Int /\ k \in Int
    BY <1>1
  <2>3. fences(k) \in SUBSET (Start..k) /\ IsFiniteSet(Start..k)
    BY <2>2, FS_Interval
  <2> HIDE DEF fences
  <2>4. IsFiniteSet(fences(k))
    BY <2>3, FS_Subset
  <2> QED BY <2>1, <2>4, FS_CardinalityType
<1>3. SUFFICES ASSUME NEW j \in Start..Len(file), NEW k \in Start..Len(file), j < i, i < k,
                      IsLine(k, "fence"), FencesTo(Start, j) % 2 = 1,
                      FencesTo(Start, k) = FencesTo(Start, j) + 1
               PROVE  FALSE
  BY DEF Closed
<1>4. fences(j) \in SUBSET fences(i) /\ fences(i) \in SUBSET fences(k)
  BY <1>1, <1>3
<1>5. k \in fences(k) /\ k \notin fences(i)
  BY <1>1, <1>3
<1> HIDE DEF fences
<1>6. Cardinality(fences(j)) <= Cardinality(fences(i))
  BY <1>2, <1>4, FS_Subset
<1>7. Cardinality(fences(i)) <= Cardinality(fences(k)) /\ Cardinality(fences(i)) # Cardinality(fences(k))
  BY <1>2, <1>4, <1>5, FS_Subset
<1>8. FencesTo(Start, i) = FencesTo(Start, j)
  BY <1>2, <1>3, <1>6, <1>7
<1>9. FencesTo(Start, i) % 2 = 0
  BY DEF Boundary
<1> QED BY <1>3, <1>8, <1>9

\* What EveryLineIsFiled says of an issue's description and comments.
Files(description, comments) ==
  LET commented == FlattenSeq(comments)
      filed == description \o commented
  IN  /\ description # <<>>
      /\ ToSet(filed) \cup ToSet(Dropped) = ToSet(Written(Start, Len(file)))
      /\ Len(filed) + Len(Dropped) = Len(Written(Start, Len(file)))
      /\ \A i, j \in DOMAIN commented : i < j => commented[i] < commented[j]
      /\ \A s \in DOMAIN comments : ~Closed(comments[s][1])

LEMMA DisjointUnion ==
  ASSUME NEW A, NEW B, IsFiniteSet(A), IsFiniteSet(B), A \cap B = {}
  PROVE  /\ IsFiniteSet(A \cup B) /\ Cardinality(A) \in Nat /\ Cardinality(B) \in Nat
         /\ Cardinality(A \cup B) = Cardinality(A) + Cardinality(B)
<1>1. /\ IsFiniteSet(A \cup B)
      /\ Cardinality(A \cup B) = Cardinality(A) + Cardinality(B) - Cardinality(A \cap B)
  BY FS_Union
<1>2. Cardinality(A) \in Nat /\ Cardinality(B) \in Nat /\ Cardinality(A \cap B) = 0
  BY FS_CardinalityType, FS_EmptySet
<1> QED BY <1>1, <1>2

LEMMA EveryLineIsPlanned ==
  ASSUME file \in Seq(Lines), Description # <<>>
  PROVE  Files(Description, CommentLines)
<1> DEFINE d == DescriptionAt
           n == Len(Boundaries)
           sections == UNION {TextOf(s) : s \in 1..n}
           all == Text(Start, Len(file))
           D == ToSet(Description)
           X == ToSet(Dropped)
           commented == FlattenSeq(CommentLines)
<1>1. d \in 0..n /\ n \in Nat
  BY BoundariesMembers, DescriptionPlace
<1>2. /\ PreText \in Seq(Nat) /\ IsAscending(PreText)
      /\ all = ToSet(PreText) \cup sections /\ ToSet(PreText) \cap sections = {}
  BY TextIsCut
<1>3. /\ CommentLines \in Seq(Seq(Nat)) /\ commented \in Seq(Nat) /\ IsAscending(commented)
      /\ ToSet(commented) = Commented
      /\ \A k \in DOMAIN CommentLines : \E s \in 1..n : CommentLines[k][1] = Boundaries[s]
  BY CommentedMembers
<1>4. /\ Description \in Seq(Nat) /\ IsAscending(Description)
      /\ Dropped \in Seq(Nat) /\ IsAscending(Dropped)
      /\ D \cup Commented \cup X = all
      /\ D \cap Commented = {} /\ (D \cup Commented) \cap X = {}
  <2>1. CASE d = 0
    <3>1. Description = PreText /\ Dropped = <<>> /\ X = {}
      BY <2>1 DEF Description, Dropped, ToSet
    <3>2. Commented = sections
      BY <1>1, <2>1 DEF Commented
    <3>3. <<>> \in Seq(Nat) /\ IsAscending(<<>>)
      BY DEF IsAscending
    <3> HIDE DEF X, sections, all
    <3> QED BY <1>2, <3>1, <3>2, <3>3
  <2>2. CASE d # 0
    <3>1. Description = Sections[d].lines /\ Dropped = PreText /\ d \in 1..n
      BY <1>1, <2>2 DEF Description, Dropped
    <3>2. Description \in Seq(Nat) /\ IsAscending(Description) /\ D = TextOf(d)
      BY <3>1, SectionsMembers
    <3>3. sections = TextOf(d) \cup Commented
      BY <3>1 DEF Commented
    <3>4. \A s \in 1..n : s # d => TextOf(d) \cap TextOf(s) = {}
      BY <3>1, SectionsApart
    <3>5. TextOf(d) \cap Commented = {}
      BY <3>4 DEF Commented
    <3> HIDE DEF D, sections, all
    <3> QED BY <1>2, <3>1, <3>2, <3>3, <3>5
  <2> QED BY <2>1, <2>2
<1> DEFINE filed == Description \o commented
           written == Written(Start, Len(file))
<1>5. ToSet(written) = all /\ Len(written) = Cardinality(all)
  <2>1. Start \in Int /\ Start >= 1 /\ Len(file) \in Int
    BY StartIsPlace
  <2>2. written \in Seq(Nat) /\ IsAscending(written) /\ ToSet(written) = all
    BY <2>1, WrittenMembers
  <2> HIDE DEF written, all
  <2> QED BY <2>2, AscendingLength
<1> HIDE DEF D, X, all, commented, written
<1>6. filed \in Seq(Nat) /\ ToSet(filed) = D \cup Commented
      /\ Len(filed) = Len(Description) + Len(commented)
  <2>1. ToSet(filed) = D \cup Commented /\ filed \in Seq(Nat)
    BY <1>3, <1>4, ConcatMembers DEF D
  <2> QED BY <1>3, <1>4, <2>1
<1>7. /\ IsFiniteSet(D) /\ Len(Description) = Cardinality(D)
      /\ IsFiniteSet(X) /\ Len(Dropped) = Cardinality(X)
      /\ IsFiniteSet(Commented) /\ Len(commented) = Cardinality(Commented)
  BY <1>3, <1>4, AscendingLength DEF D, X
<1>8. Cardinality(all) = Cardinality(D) + Cardinality(Commented) + Cardinality(X)
  <2>1. /\ IsFiniteSet(D \cup Commented)
        /\ Cardinality(D \cup Commented) = Cardinality(D) + Cardinality(Commented)
    BY <1>4, <1>7, DisjointUnion
  <2>2. Cardinality(D \cup Commented \cup X) = Cardinality(D \cup Commented) + Cardinality(X)
    BY <1>4, <1>7, <2>1, DisjointUnion
  <2> QED BY <1>4, <2>1, <2>2
<1>9. ToSet(filed) \cup X = ToSet(written) /\ Len(filed) + Len(Dropped) = Len(written)
  BY <1>4, <1>5, <1>6, <1>7, <1>8
<1>10. ASSUME NEW k \in DOMAIN CommentLines PROVE ~Closed(CommentLines[k][1])
  <2>1. PICK s \in 1..n : CommentLines[k][1] = Boundaries[s]
    BY <1>3
  <2>2. Boundaries[s] \in Start..Len(file) /\ Boundary(Boundaries[s])
    BY BoundariesMembers
  <2> QED BY <2>1, <2>2, LabelsOutsideCode
<1>11. \A i, j \in DOMAIN commented : i < j => commented[i] < commented[j]
  BY <1>3 DEF IsAscending
<1> QED BY <1>9, <1>10, <1>11 DEF Files, X, commented, written

LEMMA FileStaysFiled ==
  ASSUME file' = file, NEW x, NEW y
  PROVE  Files(x, y)' <=> Files(x, y)
<1>1. \A i, k : IsLine(i, k)' <=> IsLine(i, k)
  BY DEF IsLine
<1>2. First' = First
  BY DEF First, IsLine
<1>3. Start' = Start
  BY <1>2 DEF Start, Titled, IsLine
<1>4. \A i, j : FencesTo(i, j)' = FencesTo(i, j)
  BY DEF FencesTo, IsLine
<1>5. \A i, j : Written(i, j)' = Written(i, j)
  BY DEF Written, IsLine
<1>6. \A i : Boundary(i)' <=> Boundary(i)
  BY <1>1, <1>3, <1>4 DEF Boundary
<1>7. Boundaries' = Boundaries
  BY <1>3, <1>6 DEF Boundaries
<1>8. Sections' = Sections
  BY <1>5, <1>7 DEF Sections
<1>9. PreText' = PreText
  BY <1>3, <1>5, <1>7 DEF PreText
<1>10. DescriptionAt' = DescriptionAt
  BY <1>8, <1>9 DEF DescriptionAt
<1>11. Dropped' = Dropped
  BY <1>9, <1>10 DEF Dropped
<1>12. \A i : Closed(i)' <=> Closed(i)
  BY <1>1, <1>3, <1>4 DEF Closed
<1> QED BY <1>3, <1>5, <1>11, <1>12 DEF Files

-----------------------------------------------------------------------------
(* What the transaction writes.                                            *)

\* An issue being written has the description planned for it and the first of
\* the comments.
Follows(issue) ==
  /\ issue.description = plan.description
  /\ issue.comments \in Seq(Seq(Nat)) /\ Len(issue.comments) <= Len(plan.comments)
  /\ \A k \in 1..Len(issue.comments) : issue.comments[k] = plan.comments[k]

WritingFollows ==
  /\ stored = <<>> /\ Len(pending) <= Batch
  /\ plan.comments \in Seq(Seq(Nat)) /\ Files(plan.description, plan.comments)
  /\ Len(pending) >= 1 => Follows(pending[1])
  /\ Len(pending) > 1 => Len(pending[1].comments) = Len(plan.comments)

LinesAreFiled ==
  /\ file \in Seq(Lines)
  /\ step = "edit" => pending = <<>> /\ stored = <<>>
  /\ step = "write" => WritingFollows
  /\ stored # <<>> =>
       step = "done" /\ Len(stored) = Batch /\ Files(stored[1].description, stored[1].comments)

\* An issue that has all its comments has those planned.
LEMMA FollowedToTheEnd ==
  ASSUME NEW issue, Follows(issue), Len(issue.comments) = Len(plan.comments),
         plan.comments \in Seq(Seq(Nat)), Files(plan.description, plan.comments)
  PROVE  Files(issue.description, issue.comments)
<1> DEFINE Lists == Seq(Nat)
           c == issue.comments
           p == plan.comments
<1>1. c \in Seq(Lists) /\ p \in Seq(Lists) /\ Len(c) = Len(p) /\ \A k \in 1..Len(c) : c[k] = p[k]
  BY DEF Follows
<1> HIDE DEF Lists, c, p
<1>2. c = p
  BY <1>1
<1> QED BY <1>2 DEF Follows, c, p

LEMMA FilingBegins == IngestInit => LinesAreFiled
<1> SUFFICES ASSUME IngestInit PROVE LinesAreFiled
  OBVIOUS
<1> QED BY DEF IngestInit, LinesAreFiled

LEMMA FilingSteps ==
  PairsAreSound /\ LinesAreFiled /\ [IngestNext]_ivars => LinesAreFiled'
<1> SUFFICES ASSUME PairsAreSound, LinesAreFiled, [IngestNext]_ivars PROVE LinesAreFiled'
  OBVIOUS
<1>1. /\ file \in Seq(Lines)
      /\ step = "edit" => pending = <<>> /\ stored = <<>>
      /\ step = "write" => WritingFollows
      /\ stored # <<>> => step = "done" /\ Len(stored) = Batch
                          /\ Files(stored[1].description, stored[1].comments)
  BY DEF LinesAreFiled
<1>2. AllSound(Storable, pending) /\ (step = "write" => Sound(Storable, plan))
      /\ Batch \in Nat \ {0}
  BY IngestAssumption DEF PairsAreSound
<1>3. Len(pending) \in Nat /\ \A i \in 1..Len(pending) : Sound(Storable, pending[i])
  <2> HIDE DEF Sound
  <2>1. PICK S : pending \in Seq(S)
    BY <1>2 DEF AllSound
  <2> QED BY <1>2, <2>1, SoundMembers
<1>4. file' = file => \A x, y : Files(x, y)' <=> Files(x, y)
  <2> SUFFICES ASSUME file' = file, NEW x, NEW y PROVE Files(x, y)' <=> Files(x, y)
    OBVIOUS
  <2> QED BY FileStaysFiled
<1>5. CASE UNCHANGED ivars
  <2>1. UNCHANGED <<file, step, plan, pending, stored>>
    BY <1>5 DEF ivars
  <2>2. step' = "write" => WritingFollows'
    BY <1>1, <1>4, <2>1 DEF WritingFollows, Follows
  <2>3. (stored # <<>> => Files(stored[1].description, stored[1].comments))'
    BY <1>1, <1>4, <2>1
  <2> QED BY <1>1, <2>1, <2>2, <2>3 DEF LinesAreFiled
<1>6. CASE AddLine
  <2>1. PICK line \in Lines : file' = Append(file, line)
    BY <1>6 DEF AddLine
  <2>2. step = "edit" /\ UNCHANGED <<step, pending, stored>>
    BY <1>6 DEF AddLine
  <2>3. file' \in Seq(Lines)
    <3> HIDE DEF Lines
    <3> QED BY <1>1, <2>1
  <2> QED BY <1>1, <2>2, <2>3 DEF LinesAreFiled
<1>7. CASE BuildIngestPlan
  <2>1. step = "edit" /\ pending = <<>> /\ stored = <<>> /\ step' # "edit"
        /\ UNCHANGED <<file, pending, stored>>
    BY <1>1, <1>7 DEF BuildIngestPlan
  <2>2. ASSUME step' = "write" PROVE WritingFollows'
    <3>1. Description # <<>> /\ plan'.description = Description /\ plan'.comments = CommentLines
      BY <1>7, <2>2 DEF BuildIngestPlan, CommentLines
    <3>2. Files(Description, CommentLines) /\ CommentLines \in Seq(Seq(Nat))
      BY <1>1, <3>1, EveryLineIsPlanned, CommentedMembers
    <3>3. Files(plan.description, plan.comments)'
      BY <1>4, <2>1, <3>1, <3>2
    <3>4. Len(pending') = 0
      BY <2>1
    <3> QED BY <1>2, <2>1, <3>1, <3>2, <3>3, <3>4 DEF WritingFollows
  <2> QED BY <1>1, <2>1, <2>2 DEF LinesAreFiled
<1>8. CASE CreateIssue
  <2> DEFINE n == Len(pending)
             issue == [Plans[n + 1] EXCEPT !.comments = <<>>, !.resolved = FALSE]
  <2>1. step = "write" /\ ~Uncommented /\ n < Batch /\ pending' = Append(pending, issue)
        /\ UNCHANGED <<file, step, plan, stored>>
    BY <1>8 DEF CreateIssue
  <2>2. WritingFollows /\ Sound(Storable, plan)
    BY <1>1, <1>2, <2>1
  <2>3. Len(pending') = n + 1 /\ n + 1 <= Batch
        /\ pending'[n + 1] = issue /\ \A i \in 1..n : pending'[i] = pending[i]
    <3>1. PICK S : pending \in Seq(S)
      BY <1>2 DEF AllSound
    <3> HIDE DEF issue
    <3> QED BY <1>2, <1>3, <2>1, <3>1
  <2>4. CASE n = 0
    <3>1. Plans[1] = plan
      BY <1>2 DEF Plans
    <3>2. issue.description = plan.description /\ issue.comments = <<>>
      BY <2>2, <2>4, <3>1 DEF Sound, Fields
    <3>3. <<>> \in Seq(Seq(Nat)) /\ Len(<<>>) = 0 /\ Len(plan.comments) \in Nat
      BY <2>2 DEF WritingFollows
    <3> HIDE DEF issue
    <3>4. Follows(issue)
      BY <3>2, <3>3 DEF Follows
    <3>5. Follows(pending[1])'
      BY <2>1, <2>3, <2>4, <3>4 DEF Follows
    <3> QED BY <1>1, <1>4, <2>1, <2>2, <2>3, <2>4, <3>5 DEF LinesAreFiled, WritingFollows
  <2>5. CASE n > 0
    <3>1. Follows(pending[1]) /\ Follows(pending[1])' /\ pending'[1] = pending[1]
      BY <1>3, <2>1, <2>2, <2>3, <2>5 DEF WritingFollows, Follows
    <3>2. Len(pending[1].comments) = Len(plan.comments)
      <4>1. CASE n = 1
        <5>1. pending # <<>> /\ Current = pending[1] /\ Planned = plan
          BY <1>2, <4>1 DEF Current, Planned, Plans
        <5>2. ~(Len(pending[1].comments) < Len(plan.comments))
          BY <2>1, <5>1 DEF Uncommented
        <5>3. Len(pending[1].comments) \in Nat /\ Len(plan.comments) \in Nat
              /\ Len(pending[1].comments) <= Len(plan.comments)
          BY <2>2, <3>1 DEF Follows, WritingFollows
        <5> QED BY <5>2, <5>3
      <4>2. CASE n > 1
        BY <2>2, <4>2 DEF WritingFollows
      <4>3. n = 1 \/ n > 1
        <5>1. n \in Nat
          BY <1>3
        <5> HIDE DEF n
        <5> QED BY <2>5, <5>1
      <4> QED BY <4>1, <4>2, <4>3
    <3> HIDE DEF issue
    <3> QED BY <1>1, <1>4, <2>1, <2>2, <2>3, <3>1, <3>2 DEF LinesAreFiled, WritingFollows
  <2> QED BY <1>3, <2>4, <2>5
<1>9. CASE CreateComment
  <2> DEFINE n == Len(pending)
             old == pending[n].comments
             issue == [pending[n] EXCEPT !.comments = Append(@, Planned.comments[Len(@) + 1])]
  <2>1. step = "write" /\ Uncommented /\ pending # <<>> /\ pending' = [pending EXCEPT ![n] = issue]
        /\ UNCHANGED <<file, step, plan, stored>>
    BY <1>9 DEF CreateComment, Uncommented
  <2>2. WritingFollows
    BY <1>1, <2>1
  <2>3. n \in 1..n /\ Len(pending') = n
        /\ pending'[n] = issue /\ \A i \in 1..n : i # n => pending'[i] = pending[i]
    <3>1. PICK S : pending \in Seq(S)
      BY <1>2 DEF AllSound
    <3> HIDE DEF issue
    <3> QED BY <1>3, <2>1, <3>1
  <2>4. CASE n = 1
    <3>1. Planned = plan /\ Current = pending[1] /\ Follows(pending[1])
      BY <1>2, <2>2, <2>4 DEF Planned, Plans, Current, WritingFollows
    <3>2. issue.description = plan.description
          /\ issue.comments = Append(old, plan.comments[Len(old) + 1])
      BY <1>3, <2>3, <2>4, <3>1 DEF Follows, Sound, Fields
    <3>3. old \in Seq(Seq(Nat)) /\ plan.comments \in Seq(Seq(Nat))
          /\ Len(old) < Len(plan.comments) /\ \A k \in 1..Len(old) : old[k] = plan.comments[k]
      BY <2>1, <2>2, <2>4, <3>1 DEF Follows, WritingFollows, Uncommented
    <3>4. Follows(issue)
      <4> DEFINE Lists == Seq(Nat)
                 p == plan.comments
      <4>1. old \in Seq(Lists) /\ p \in Seq(Lists) /\ Len(old) < Len(p)
            /\ \A k \in 1..Len(old) : old[k] = p[k]
        BY <3>3
      <4> DEFINE new == Append(old, p[Len(old) + 1])
      <4>2. issue.comments = new
        BY <3>2
      <4> HIDE DEF Lists, p, old, issue
      <4>3. new \in Seq(Lists) /\ Len(new) <= Len(p) /\ \A k \in 1..Len(new) : new[k] = p[k]
        BY <4>1
      <4> HIDE DEF new
      <4> QED BY <3>2, <4>2, <4>3 DEF Follows, Lists, p
    <3> HIDE DEF issue
    <3>5. Follows(pending[1])'
      BY <2>1, <2>3, <2>4, <3>4 DEF Follows
    <3>6. WritingFollows'
      <4>1. stored' = <<>> /\ Len(pending') = 1 /\ 1 <= Batch
        BY <1>2, <2>1, <2>2, <2>3, <2>4 DEF WritingFollows
      <4>2. plan'.comments \in Seq(Seq(Nat)) /\ Files(plan.description, plan.comments)'
        BY <1>4, <2>1, <2>2 DEF WritingFollows
      <4> QED BY <3>5, <4>1, <4>2 DEF WritingFollows
    <3> QED BY <1>1, <2>1, <2>2, <3>6 DEF LinesAreFiled, WritingFollows
  <2>5. CASE n > 1
    <3> HIDE DEF issue
    <3>1. pending'[1] = pending[1]
      BY <1>3, <2>3, <2>5
    <3>2. Follows(pending[1])'
      BY <2>1, <2>2, <2>5, <3>1 DEF WritingFollows, Follows
    <3> QED BY <1>1, <1>4, <2>1, <2>2, <2>3, <3>1, <3>2 DEF LinesAreFiled, WritingFollows
  <2> QED BY <1>3, <2>3, <2>4, <2>5
<1>10. CASE Resolve
  <2> DEFINE n == Len(pending)
             issue == [pending[n] EXCEPT !.resolved = TRUE]
  <2>1. step = "write" /\ pending # <<>> /\ pending' = [pending EXCEPT ![n] = issue]
        /\ UNCHANGED <<file, step, plan, stored>>
    BY <1>10 DEF Resolve, Unresolved
  <2>2. WritingFollows
    BY <1>1, <2>1
  <2>3. n \in 1..n /\ Len(pending') = n
        /\ pending'[n] = issue /\ \A i \in 1..n : i # n => pending'[i] = pending[i]
    <3>1. PICK S : pending \in Seq(S)
      BY <1>2 DEF AllSound
    <3> HIDE DEF issue
    <3> QED BY <1>3, <2>1, <3>1
  <2>4. issue.description = pending[n].description /\ issue.comments = pending[n].comments
    BY <1>3, <2>3 DEF Sound, Fields
  <2> HIDE DEF issue
  <2>5. pending'[1].description = pending[1].description
        /\ pending'[1].comments = pending[1].comments
    BY <1>3, <2>3, <2>4
  <2>6. Follows(pending[1])'
    <3>1. Follows(pending[1])
      BY <2>2, <2>3 DEF WritingFollows
    <3> QED BY <2>1, <2>5, <3>1 DEF Follows
  <2> QED BY <1>1, <1>4, <2>1, <2>2, <2>3, <2>5, <2>6 DEF LinesAreFiled, WritingFollows
<1>11. CASE Commit
  <2>1. step = "write" /\ ~Uncommented /\ Len(pending) = Batch /\ stored' = pending /\ step' = "done"
        /\ UNCHANGED <<file, plan, pending>>
    BY <1>11 DEF Commit
  <2>2. WritingFollows /\ Follows(pending[1])
    BY <1>1, <1>2, <2>1 DEF WritingFollows
  <2>3. Len(pending[1].comments) = Len(plan.comments)
    <3>1. CASE Batch = 1
      <4>1. pending # <<>> /\ Current = pending[1] /\ Planned = plan
        BY <1>2, <2>1, <3>1 DEF Current, Planned, Plans
      <4>2. ~(Len(pending[1].comments) < Len(plan.comments))
        BY <2>1, <4>1 DEF Uncommented
      <4>3. Len(pending[1].comments) \in Nat /\ Len(plan.comments) \in Nat
        BY <2>2 DEF Follows, WritingFollows
      <4> QED BY <2>2, <4>2, <4>3 DEF Follows
    <3>2. CASE Batch # 1
      BY <1>2, <2>1, <2>2, <3>2 DEF WritingFollows
    <3> QED BY <3>1, <3>2
  <2>4. Files(pending[1].description, pending[1].comments)
    BY <2>2, <2>3, FollowedToTheEnd DEF WritingFollows
  <2>5. Files(stored[1].description, stored[1].comments)'
    BY <1>4, <2>1, <2>4
  <2> QED BY <1>1, <2>1, <2>5 DEF LinesAreFiled
<1>12. CASE Rollback
  <2>1. step = "write" /\ step' = "failed" /\ UNCHANGED <<file, stored>>
    BY <1>12 DEF Rollback
  <2>2. stored = <<>>
    BY <1>1, <2>1 DEF WritingFollows
  <2> QED BY <1>1, <2>1, <2>2 DEF LinesAreFiled
<1> QED BY <1>5, <1>6, <1>7, <1>8, <1>9, <1>10, <1>11, <1>12 DEF IngestNext

\* An ingest that is committed has filed every line of its first file.
THEOREM IngestFilesEveryLine == IngestSpec => []EveryLineIsFiled
<1>1. IngestSpec => [](PairsAreSound /\ LinesAreFiled)
  BY IngestBegins, IngestSteps, FilingBegins, FilingSteps, PTL DEF IngestSpec
<1>2. LinesAreFiled => EveryLineIsFiled
  BY DEF LinesAreFiled, EveryLineIsFiled, Files
<1> QED BY <1>1, <1>2, PTL

-----------------------------------------------------------------------------
(* Feed.                                                                   *)

\* What a row on its way or on the screen says is not of the future, nor of an
\* issue that was never filed.
Known(rows, table, date) ==
  \A n \in DOMAIN rows : rows[n].id \in DOMAIN table /\ rows[n].stamp <= date

\* A request for a page or for the whole window brings only what its filter asks
\* for, which is the filter on the screen unless another load has been begun.
AskedFor(q, g, f) ==
  /\ q.gen <= g
  /\ q.gen = g => q.filter = f
  /\ q.kind \in {"load", "page"} => \A n \in DOMAIN q.rows : Matches(q.rows[n], q.filter)

\* The answer to a poll has every issue that changed between its cursor and the
\* last second of it, and has it once.
RowIn(table, i) == [id |-> i, status |-> table[i].status, stamp |-> table[i].stamp]
Complete(q, table) ==
  q.kind = "poll" =>
    /\ \A m, n \in DOMAIN q.rows : q.rows[m].id = q.rows[n].id => m = n
    /\ \A i \in DOMAIN table, n \in DOMAIN q.rows :
         q.since < table[i].stamp /\ table[i].stamp < q.rows[n].stamp =>
           \E m \in DOMAIN q.rows : q.rows[m] = RowIn(table, i)

Pending(q, table, date, g, f) ==
  /\ Known(q.rows, table, date) /\ q.since <= date
  /\ q.kind = "save" => Len(q.rows) = 1
  /\ AskedFor(q, g, f) /\ Complete(q, table)

DatabaseOK ==
  /\ DOMAIN issues \subseteq Ids
  /\ \A i \in DOMAIN issues : issues[i] \in [status: Statuses, stamp: 1..clock]
  /\ clock \in 1..MaxClock /\ writes \in 0..MaxWrites

TabOK ==
  /\ filter \in {"all", "open"} /\ gen \in 0..MaxLoads
  /\ window \in Seq(Row) /\ total \in 0..MaxIssues /\ cursor \in 0..clock
  /\ lock \in BOOLEAN /\ hint \in BOOLEAN /\ open \in Ids \cup {0}
  /\ Known(window, issues, clock) /\ (open = 0 \/ open \in DOMAIN issues)
  /\ \A n \in DOMAIN window : Matches(window[n], filter)

FetchesOK ==
  /\ DOMAIN fetches \subseteq Fetches
  /\ \A k \in DOMAIN fetches : fetches[k] \in Fetch /\ Pending(fetches[k], issues, clock, gen, filter)

FeedInv == DatabaseOK /\ TabOK /\ FetchesOK

-----------------------------------------------------------------------------
(* What the queries and the tab's helpers yield.                           *)

LEMMA RowOfIsRow ==
  ASSUME DatabaseOK, NEW i \in DOMAIN issues
  PROVE  RowOf(i) \in Row /\ RowOf(i).id = i /\ RowOf(i).stamp = issues[i].stamp
         /\ issues[i].stamp \in 1..clock /\ RowOf(i).status = issues[i].status
<1>1. issues[i].status \in Statuses /\ issues[i].stamp \in 1..clock /\ i \in Ids
  BY DEF DatabaseOK
<1>2. clock \in 1..MaxClock /\ MaxClock \in Nat
  BY FeedAssumption DEF DatabaseOK
<1>3. issues[i].stamp \in 1..MaxClock
  BY <1>1, <1>2
<1> QED BY <1>1, <1>3 DEF RowOf, Row

\* The answer to a query has a row of each issue asked for, and nothing else.
LEMMA RowsOfIssues ==
  ASSUME DatabaseOK, NEW ids, ids \subseteq DOMAIN issues
  PROVE  /\ Rows(ids) \in Seq(Row) /\ Known(Rows(ids), issues, clock)
         /\ Cardinality(ids) \in 0..MaxIssues
         /\ \A n \in DOMAIN Rows(ids) : \E i \in ids : Rows(ids)[n] = RowOf(i)
         /\ \A i \in ids : \E n \in DOMAIN Rows(ids) : Rows(ids)[n] = RowOf(i)
         /\ \A m, n \in DOMAIN Rows(ids) : Rows(ids)[m].id = Rows(ids)[n].id => m = n
<1> DEFINE c == Cardinality(ids)
           a == Ascending(ids)
           rows == Rows(ids)
<1>1. MaxIssues \in Nat /\ ids \in SUBSET (1..MaxIssues)
  BY FeedAssumption DEF DatabaseOK, Ids
<1>2. IsFiniteSet(ids) /\ c \in Nat /\ c <= MaxIssues
  <2>1. IsFiniteSet(1..MaxIssues) /\ Cardinality(1..MaxIssues) = MaxIssues
    <3>1. 0 \in Int /\ 1 \in Int /\ MaxIssues \in Int
      BY <1>1
    <3>2. /\ IsFiniteSet(1..MaxIssues)
          /\ Cardinality(1..MaxIssues) = IF 1 > MaxIssues THEN 0 ELSE MaxIssues - 1 + 1
      BY <3>1, FS_Interval
    <3>3. (1 > MaxIssues => MaxIssues = 0) /\ MaxIssues - 1 + 1 = MaxIssues
      BY <1>1
    <3> QED BY <3>2, <3>3
  <2>2. IsFiniteSet(ids) /\ c <= MaxIssues
    BY <1>1, <2>1, FS_Subset
  <2> QED BY <2>2, FS_CardinalityType
<1>3. ids \subseteq Nat
  BY <1>1
<1>4. /\ a \in Seq(ids) /\ Len(a) = c /\ ToSet(a) = ids
      /\ \A i, j \in 1..c : i < j => a[i] < a[j]
  BY <1>2, <1>3, AscendingMembers
<1>5. rows = [k \in 1..c |-> RowOf(a[c + 1 - k])]
  BY DEF Rows
<1> HIDE DEF c, a, rows
<1>6. \A k \in 1..c : c + 1 - k \in 1..c /\ c + 1 - (c + 1 - k) = k
  BY <1>2
<1>7. \A k \in 1..c : a[k] \in ids /\ a[k] \in Nat
  <2> SUFFICES ASSUME NEW k \in 1..c PROVE a[k] \in ids /\ a[k] \in Nat
    OBVIOUS
  <2>1. a[k] \in ids
    BY <1>4
  <2> QED BY <1>3, <2>1
<1>8. DOMAIN rows = 1..c /\ \A k \in 1..c : rows[k] = RowOf(a[c + 1 - k]) /\ a[c + 1 - k] \in ids
  BY <1>5, <1>6, <1>7
<1>9. \A k \in 1..c : rows[k] \in Row /\ rows[k].id \in DOMAIN issues /\ rows[k].stamp <= clock
                      /\ rows[k].id = a[c + 1 - k]
  <2> SUFFICES ASSUME NEW k \in 1..c
      PROVE  rows[k] \in Row /\ rows[k].id \in DOMAIN issues /\ rows[k].stamp <= clock
             /\ rows[k].id = a[c + 1 - k]
    OBVIOUS
  <2> DEFINE i == a[c + 1 - k]
  <2>1. rows[k] = RowOf(i) /\ i \in DOMAIN issues
    BY <1>8
  <2> HIDE DEF i
  <2>2. RowOf(i) \in Row /\ RowOf(i).id = i /\ RowOf(i).stamp \in 1..clock
    BY <2>1, RowOfIsRow
  <2>3. clock \in Nat
    BY DEF DatabaseOK
  <2> QED BY <2>1, <2>2, <2>3 DEF i
<1>10. rows \in Seq(Row)
  <2>1. rows \in [1..c -> Row]
    BY <1>5, <1>9
  <2> QED BY <1>2, <2>1, SeqDef
<1>11. Known(rows, issues, clock)
  BY <1>8, <1>9 DEF Known
<1>12. \A i \in ids : \E n \in DOMAIN rows : rows[n] = RowOf(i)
  <2> SUFFICES ASSUME NEW i \in ids PROVE \E n \in DOMAIN rows : rows[n] = RowOf(i)
    OBVIOUS
  <2>1. PICK k \in 1..c : a[k] = i
    BY <1>4 DEF ToSet
  <2>2. c + 1 - k \in 1..c /\ rows[c + 1 - k] = RowOf(i)
    BY <1>6, <1>8, <2>1
  <2> QED BY <1>8, <2>2
<1>13. \A m, n \in DOMAIN rows : rows[m].id = rows[n].id => m = n
  <2> SUFFICES ASSUME NEW m \in 1..c, NEW n \in 1..c, rows[m].id = rows[n].id PROVE m = n
    BY <1>8
  <2>1. a[c + 1 - m] = a[c + 1 - n] /\ c + 1 - m \in 1..c /\ c + 1 - n \in 1..c
    BY <1>6, <1>9
  <2>2. ~(c + 1 - m < c + 1 - n) /\ ~(c + 1 - n < c + 1 - m)
    BY <1>4, <1>7, <2>1
  <2> QED BY <1>2, <2>1, <2>2
<1>14. c \in 0..MaxIssues
  BY <1>1, <1>2
<1> QED BY <1>8, <1>10, <1>11, <1>12, <1>13, <1>14 DEF c, rows

\* A page is a stretch of what is listed.
LEMMA PageMembers ==
  ASSUME NEW S, NEW rows \in Seq(S), NEW offset \in Nat
  PROVE  PageAt(rows, offset) \in Seq(S) /\ ToSet(PageAt(rows, offset)) \subseteq ToSet(rows)
<1> DEFINE ends == {offset + PageSize, Len(rows)}
<1>1. Len(rows) \in Nat /\ offset + PageSize \in Nat
  BY FeedAssumption
<1>2. \E x \in ends : \A y \in ends : x <= y
  BY <1>1, LeastNumber
<1>3. Min(ends) \in ends /\ \A y \in ends : Min(ends) <= y
  BY <1>2 DEF Min
<1>4. Min(ends) \in 0..Len(rows)
  BY <1>1, <1>3
<1>5. offset + 1 \in Nat \ {0}
  OBVIOUS
<1> HIDE DEF ends
<1>6. PageAt(rows, offset) = SubSeq(rows, offset + 1, Min(ends))
  BY DEF PageAt, ends
<1> QED BY <1>4, <1>5, <1>6, SubSeqMembers

\* The cursor never goes back when it takes note of rows, and is at the latest.
LEMMA LatestStamp ==
  ASSUME NEW since \in 0..MaxClock, NEW rows \in Seq(Row)
  PROVE  /\ Latest(since, rows) \in 0..MaxClock /\ since <= Latest(since, rows)
         /\ \A n \in DOMAIN rows : rows[n].stamp <= Latest(since, rows)
         /\ \/ Latest(since, rows) = since
            \/ \E n \in DOMAIN rows : rows[n].stamp = Latest(since, rows)
<1> DEFINE S == {since} \cup Stamps(rows)
<1>1. MaxClock \in Nat
  BY FeedAssumption
<1>2. \A n \in DOMAIN rows : rows[n].stamp \in 1..MaxClock
  <2>1. \A n \in DOMAIN rows : rows[n] \in Row
    OBVIOUS
  <2> QED BY <2>1 DEF Row
<1>3. S \subseteq 0..MaxClock /\ S # {}
  BY <1>1, <1>2 DEF Stamps
<1> HIDE DEF S
<1>4. \E t \in S : \A u \in S : u <= t
  BY <1>1, <1>3, GreatestNumber
<1>5. Latest(since, rows) \in S /\ \A u \in S : u <= Latest(since, rows)
  BY <1>4 DEF Latest, S
<1> QED BY <1>3, <1>5 DEF S, Stamps

\* Position finds the first row of an issue that is in the window.
LEMMA PositionIsFirst ==
  ASSUME NEW T, window \in Seq(T), NEW id, InWindow(id)
  PROVE  /\ Position(id) \in DOMAIN window /\ window[Position(id)].id = id
         /\ \A m \in 1..(Position(id) - 1) : window[m].id # id
<1> DEFINE S == {n \in DOMAIN window : window[n].id = id}
<1>1. DOMAIN window = 1..Len(window) /\ Len(window) \in Nat
  OBVIOUS
<1>2. S \subseteq Nat /\ S # {}
  BY <1>1 DEF InWindow
<1> HIDE DEF S
<1>3. PICK x \in S : \A y \in S : x <= y
  BY <1>2, LeastNumber
<1>4. \A m \in 1..(x - 1) : window[m].id # id
  <2> SUFFICES ASSUME NEW m \in 1..(x - 1), window[m].id = id PROVE FALSE
    OBVIOUS
  <2>1. x \in 1..Len(window)
    BY <1>1 DEF S
  <2>2. m \in 1..Len(window) /\ m < x
    BY <1>1, <2>1
  <2>3. m \in S
    BY <1>1, <2>2 DEF S
  <2> QED BY <1>3, <2>1, <2>2, <2>3
<1>5. \E n \in DOMAIN window : window[n].id = id /\ \A m \in 1..(n - 1) : window[m].id # id
  BY <1>4 DEF S
<1> QED BY <1>5 DEF Position

\* The row that an answer has of an issue.
LEMMA RowForIssue ==
  ASSUME NEW rows, NEW id, Changed(rows, id)
  PROVE  RowFor(rows, id).id = id /\ \E n \in DOMAIN rows : rows[n] = RowFor(rows, id)
<1>1. RowFor(rows, id) \in ToSet(rows) /\ RowFor(rows, id).id = id
  BY DEF Changed, RowFor
<1> QED BY <1>1 DEF ToSet

\* After a poll each row in the window is a row of the answer, or was there before;
\* it matches the filter; and there are no more rows than there were.
LEMMA RefreshedRows ==
  ASSUME window \in Seq(Row), NEW rows \in Seq(Row)
  PROVE  /\ Refreshed(rows) \in Seq(Row)
         /\ \A m \in DOMAIN Refreshed(rows) :
              \/ /\ \E n \in DOMAIN rows : Refreshed(rows)[m] = rows[n]
                 /\ Matches(Refreshed(rows)[m], filter)
              \/ \E n \in DOMAIN window : Refreshed(rows)[m] = window[n]
         /\ Len(Refreshed(rows)) \in 0..Len(window)
         /\ \A n \in DOMAIN window : Touched(rows, n) =>
              IF Matches(RowFor(rows, window[n].id), filter)
              THEN \E m \in DOMAIN Refreshed(rows) :
                     Refreshed(rows)[m] = RowFor(rows, window[n].id)
              ELSE Len(Refreshed(rows)) < Len(window)
<1> DEFINE all == [n \in DOMAIN window |-> n]
           keep == {n \in DOMAIN window :
                      Touched(rows, n) => Matches(RowFor(rows, window[n].id), filter)}
           left == Filter(all, keep)
           new == Refreshed(rows)
           shown(n) == IF Touched(rows, n) THEN RowFor(rows, window[n].id) ELSE window[n]
<1>1. Len(window) \in Nat /\ DOMAIN window = 1..Len(window) /\ \A n \in 1..Len(window) : window[n] \in Row
  OBVIOUS
<1>2. all \in Seq(DOMAIN window) /\ ToSet(all) = DOMAIN window /\ Len(all) = Len(window)
      /\ DOMAIN all = DOMAIN window
  <2>1. all \in [1..Len(window) -> DOMAIN window]
    BY <1>1
  <2>2. all \in Seq(DOMAIN window)
    BY <1>1, <2>1, SeqDef
  <2>3. Len(all) = Len(window)
    BY <1>1
  <2> QED BY <2>2, <2>3 DEF ToSet
<1> HIDE DEF all
<1>3. /\ left \in Seq(DOMAIN window) /\ ToSet(left) = DOMAIN window \cap keep
      /\ Len(left) \in Nat /\ Len(left) <= Len(window)
      /\ (\E n \in DOMAIN window : all[n] \notin keep) => Len(left) < Len(window)
  <2> HIDE DEF keep
  <2> QED BY <1>2, FilterMembers, FilterLength
<1>4. \A n \in DOMAIN window : all[n] = n
  BY DEF all
<1>5. new = [m \in DOMAIN left |-> shown(left[m])]
  BY DEF Refreshed, all
<1> HIDE DEF left, new
<1>6. DOMAIN left = 1..Len(left) /\ \A m \in DOMAIN left : left[m] \in DOMAIN window /\ left[m] \in keep
  <2>1. DOMAIN left = 1..Len(left)
    BY <1>3
  <2>2. \A m \in DOMAIN left : left[m] \in ToSet(left)
    BY DEF ToSet
  <2> HIDE DEF keep
  <2> QED BY <1>3, <2>1, <2>2
<1>7. \A n \in DOMAIN window : Touched(rows, n) =>
        /\ \E r \in DOMAIN rows : RowFor(rows, window[n].id) = rows[r]
        /\ RowFor(rows, window[n].id) \in Row
  <2> SUFFICES ASSUME NEW n \in DOMAIN window, Touched(rows, n)
      PROVE  /\ \E r \in DOMAIN rows : RowFor(rows, window[n].id) = rows[r]
             /\ RowFor(rows, window[n].id) \in Row
    OBVIOUS
  <2>1. Changed(rows, window[n].id)
    BY DEF Touched
  <2>2. PICK r \in DOMAIN rows : rows[r] = RowFor(rows, window[n].id)
    BY <2>1, RowForIssue
  <2>3. rows[r] \in Row
    OBVIOUS
  <2> QED BY <2>2, <2>3
<1>8. \A m \in DOMAIN left : new[m] = shown(left[m]) /\ new[m] \in Row
  <2> SUFFICES ASSUME NEW m \in DOMAIN left PROVE new[m] = shown(left[m]) /\ new[m] \in Row
    OBVIOUS
  <2>1. new[m] = shown(left[m]) /\ left[m] \in DOMAIN window
    BY <1>5, <1>6
  <2>2. window[left[m]] \in Row
    BY <1>1, <2>1
  <2> QED BY <1>7, <2>1, <2>2
<1>9. new \in Seq(Row) /\ DOMAIN new = DOMAIN left /\ Len(new) = Len(left)
  <2>1. DOMAIN new = 1..Len(left)
    BY <1>5, <1>6
  <2>2. new \in [1..Len(left) -> Row]
    BY <1>5, <1>6, <1>8, <2>1
  <2> HIDE DEF shown
  <2>3. new \in Seq(Row)
    <3>1. Len(left) \in Nat /\ new \in UNION {[1..n -> Row] : n \in Nat}
      BY <1>3, <2>2
    <3> QED BY <3>1, SeqDef
  <2>4. Len(new) \in Nat /\ 1..Len(new) = 1..Len(left)
    BY <2>1, <2>3
  <2>5. Len(new) = Len(left)
    <3>1. Len(left) \in Nat
      BY <1>3
    <3> HIDE DEF left, new
    <3>2. \A a, b \in Nat : 1..a = 1..b => a = b
      <4> SUFFICES ASSUME NEW a \in Nat, NEW b \in Nat, 1..a = 1..b, a < b PROVE FALSE
        OBVIOUS
      <4> QED OBVIOUS
    <3> QED BY <2>4, <3>1, <3>2
  <2> QED BY <1>6, <2>1, <2>3, <2>5
<1>10. \A m \in DOMAIN new :
         \/ (\E n \in DOMAIN rows : new[m] = rows[n]) /\ Matches(new[m], filter)
         \/ \E n \in DOMAIN window : new[m] = window[n]
  <2> SUFFICES ASSUME NEW m \in DOMAIN left
      PROVE  \/ (\E n \in DOMAIN rows : new[m] = rows[n]) /\ Matches(new[m], filter)
             \/ \E n \in DOMAIN window : new[m] = window[n]
    BY <1>9
  <2>1. left[m] \in DOMAIN window /\ left[m] \in keep /\ new[m] = shown(left[m])
    BY <1>6, <1>8
  <2>2. CASE Touched(rows, left[m])
    <3>1. new[m] = RowFor(rows, window[left[m]].id) /\ Matches(new[m], filter)
      BY <2>1, <2>2
    <3> QED BY <1>7, <2>1, <2>2, <3>1
  <2>3. CASE ~Touched(rows, left[m])
    BY <2>1, <2>3
  <2> QED BY <2>2, <2>3
<1>11. \A n \in DOMAIN window : Touched(rows, n) =>
         IF Matches(RowFor(rows, window[n].id), filter)
         THEN \E m \in DOMAIN new : new[m] = RowFor(rows, window[n].id)
         ELSE Len(new) < Len(window)
  <2> SUFFICES ASSUME NEW n \in DOMAIN window, Touched(rows, n)
      PROVE  IF Matches(RowFor(rows, window[n].id), filter)
             THEN \E m \in DOMAIN new : new[m] = RowFor(rows, window[n].id)
             ELSE Len(new) < Len(window)
    OBVIOUS
  <2>1. CASE Matches(RowFor(rows, window[n].id), filter)
    <3>1. n \in ToSet(left)
      BY <1>3, <2>1
    <3>2. PICK m \in DOMAIN left : left[m] = n
      BY <3>1 DEF ToSet
    <3>3. new[m] = RowFor(rows, window[n].id)
      BY <1>8, <3>2
    <3> QED BY <1>9, <2>1, <3>2, <3>3
  <2>2. CASE ~Matches(RowFor(rows, window[n].id), filter)
    <3>1. all[n] \notin keep
      BY <1>4, <2>2
    <3> HIDE DEF keep
    <3>2. Len(left) < Len(window)
      BY <1>3, <3>1
    <3> QED BY <1>9, <2>2, <3>2
  <2> QED BY <2>1, <2>2
<1>12. Len(new) \in 0..Len(window)
  BY <1>1, <1>3, <1>9
<1> QED BY <1>9, <1>10, <1>11, <1>12 DEF new

-----------------------------------------------------------------------------
(* Every step.                                                             *)

LEMMA FeedBegins == Init => FeedInv
<1> SUFFICES ASSUME Init PROVE FeedInv
  OBVIOUS
<1>1. MaxClock \in Nat /\ MaxIssues \in Nat /\ MaxWrites \in Nat /\ MaxLoads \in Nat
  BY FeedAssumption
<1>2. DatabaseOK
  <2>1. DOMAIN issues = {}
    BY DEF Init, NoRows
  <2>2. clock = 1 /\ writes = 0 /\ 1 \in 1..MaxClock /\ 0 \in 0..MaxWrites
    BY <1>1, FeedAssumption DEF Init
  <2> QED BY <2>1, <2>2 DEF DatabaseOK
<1>3. TabOK
  <2>1. <<>> \in Seq(Row) /\ DOMAIN <<>> = {}
    OBVIOUS
  <2>2. gen = 0 /\ total = 0 /\ cursor = 0 /\ clock = 1
    BY DEF Init
  <2>3. gen \in 0..MaxLoads /\ total \in 0..MaxIssues /\ cursor \in 0..clock
    BY <1>1, <2>2
  <2> QED BY <2>1, <2>3 DEF Init, TabOK, Known
<1>4. FetchesOK
  <2>1. DOMAIN fetches = {}
    BY DEF Init, NoRows
  <2> QED BY <2>1 DEF FetchesOK
<1> QED BY <1>2, <1>3, <1>4 DEF FeedInv

\* Neither time nor somebody's write makes an answer wrong that is on its way.
LEMMA StillPending ==
  ASSUME NEW q \in Fetch, NEW table, NEW later, NEW date \in Nat, NEW then \in Nat, date <= then,
         NEW g, NEW f, Pending(q, table, date, g, f),
         DOMAIN table \subseteq DOMAIN later,
         \A i \in DOMAIN later : \/ i \in DOMAIN table /\ later[i] = table[i]
                                \/ later[i].stamp = date
  PROVE  Pending(q, later, then, g, f)
<1>1. /\ q.rows \in Seq(Row) /\ q.since \in Nat
      /\ \A n \in DOMAIN q.rows : q.rows[n].stamp \in Nat
  <2>1. q.rows \in Seq(Row) /\ q.since \in 0..MaxClock
    BY DEF Fetch
  <2>2. \A n \in DOMAIN q.rows : q.rows[n] \in Row
    BY <2>1
  <2> QED BY <2>1, <2>2, FeedAssumption DEF Row
<1>2. Known(q.rows, later, then) /\ q.since <= then
  BY <1>1 DEF Pending, Known
<1>3. Complete(q, later)
  <2> SUFFICES ASSUME q.kind = "poll", NEW i \in DOMAIN later, NEW n \in DOMAIN q.rows,
                      q.since < later[i].stamp, later[i].stamp < q.rows[n].stamp
      PROVE  \E m \in DOMAIN q.rows : q.rows[m] = RowIn(later, i)
    BY DEF Pending, Complete
  <2>1. q.rows[n].stamp <= date
    BY DEF Pending, Known
  <2>2. i \in DOMAIN table /\ later[i] = table[i]
    BY <1>1, <2>1
  <2>3. RowIn(later, i) = RowIn(table, i)
    BY <2>2 DEF RowIn
  <2> QED BY <2>2, <2>3 DEF Pending, Complete
<1> QED BY <1>2, <1>3 DEF Pending

LEMMA FeedSteps == FeedInv /\ [Next]_vars => FeedInv'
<1> SUFFICES ASSUME FeedInv, [Next]_vars PROVE FeedInv'
  OBVIOUS
<1> USE DEF page
<1>1. /\ MaxClock \in Nat /\ MaxIssues \in Nat /\ MaxWrites \in Nat /\ MaxLoads \in Nat
      /\ clock \in 1..MaxClock /\ clock \in Nat /\ gen \in Nat
  BY FeedAssumption DEF FeedInv, DatabaseOK, TabOK
<1>2. DatabaseOK /\ TabOK /\ FetchesOK
  BY DEF FeedInv
\* Only the requests move.
<1>3. ASSUME UNCHANGED <<issues, writes, clock, page>>
      PROVE  DatabaseOK' /\ TabOK'
  BY <1>2, <1>3 DEF DatabaseOK, TabOK
<1>4. ASSUME UNCHANGED <<issues, clock, gen, filter>>, NEW k, fetches' = Without(fetches, {k})
      PROVE  FetchesOK'
  <2> DEFINE rest == Without(fetches, {k})
  <2>1. DOMAIN rest = DOMAIN fetches \ {k} /\ \A j \in DOMAIN fetches \ {k} : rest[j] = fetches[j]
    BY WithoutRows
  <2>2. fetches' = rest
    BY <1>4
  <2> HIDE DEF rest
  <2> QED BY <1>2, <1>4, <2>1, <2>2 DEF FetchesOK
<1>5. ASSUME UNCHANGED <<issues, clock, gen, filter>>, NEW k \in DOMAIN fetches,
             NEW q \in Fetch, fetches' = [fetches EXCEPT ![k] = q],
             Pending(q, issues, clock, gen, filter)
      PROVE  FetchesOK'
  <2>1. DOMAIN fetches' = DOMAIN fetches /\ fetches'[k] = q
        /\ \A j \in DOMAIN fetches : j # k => fetches'[j] = fetches[j]
    BY <1>5
  <2> QED BY <1>2, <1>5, <2>1 DEF FetchesOK
\* The database or the clock moves on.
<1>6. ASSUME UNCHANGED <<gen, filter>>, clock' \in 1..MaxClock, clock <= clock',
             DOMAIN issues \subseteq DOMAIN issues', DOMAIN issues' \subseteq Ids,
             \A i \in DOMAIN issues' : \/ i \in DOMAIN issues /\ issues'[i] = issues[i]
                                      \/ /\ issues'[i] \in [status: Statuses, stamp: {clock}]
                                         /\ issues'[i].stamp = clock
      PROVE  /\ \A i \in DOMAIN issues' : issues'[i] \in [status: Statuses, stamp: 1..clock']
             /\ \A q \in Fetch : Pending(q, issues, clock, gen, filter)
                               => Pending(q, issues', clock', gen', filter')
  <2>1. ASSUME NEW i \in DOMAIN issues'
        PROVE  issues'[i] \in [status: Statuses, stamp: 1..clock']
    <3>1. CASE i \in DOMAIN issues /\ issues'[i] = issues[i]
      <4>1. issues[i] \in [status: Statuses, stamp: 1..clock] /\ 1..clock \subseteq 1..clock'
        BY <1>1, <1>2, <1>6, <3>1 DEF DatabaseOK
      <4> QED BY <3>1, <4>1
    <3>2. CASE issues'[i] \in [status: Statuses, stamp: {clock}]
      <4>1. {clock} \subseteq 1..clock'
        BY <1>1, <1>6
      <4> QED BY <3>2, <4>1
    <3> QED BY <1>6, <3>1, <3>2
  <2>2. ASSUME NEW q \in Fetch, Pending(q, issues, clock, gen, filter)
        PROVE  Pending(q, issues', clock', gen', filter')
    <3>1. clock' \in Nat
      BY <1>1, <1>6
    <3>2. Pending(q, issues', clock', gen, filter)
      BY <1>1, <1>6, <2>2, <3>1, StillPending
    <3> QED BY <1>6, <3>2
  <2> QED BY <2>1, <2>2
<1>7. ASSUME UNCHANGED page, clock' \in 1..MaxClock, clock <= clock',
             DOMAIN issues \subseteq DOMAIN issues'
      PROVE  TabOK'
  <2>1. Known(window, issues', clock')
    <3>1. \A n \in DOMAIN window : window[n].stamp \in Nat
      <4>1. \A n \in DOMAIN window : window[n] \in Row
        BY <1>2 DEF TabOK
      <4> QED BY <1>1, <4>1 DEF Row
    <3>2. Known(window, issues, clock) /\ clock' \in Nat
      BY <1>1, <1>2, <1>7 DEF TabOK
    <3> QED BY <1>1, <1>7, <3>1, <3>2 DEF Known
  <2>2. cursor \in 0..clock'
    BY <1>1, <1>2, <1>7 DEF TabOK
  <2> QED BY <1>2, <1>7, <2>1, <2>2 DEF TabOK
<1>8. CASE Tick
  <2>1. /\ clock' = clock + 1 /\ clock < MaxClock
        /\ UNCHANGED <<issues, writes, page, fetches>>
    BY <1>8 DEF Tick
  <2>2. clock' \in 1..MaxClock /\ clock <= clock'
    BY <1>1, <2>1
  <2>3. /\ \A i \in DOMAIN issues' : issues'[i] \in [status: Statuses, stamp: 1..clock']
        /\ \A q \in Fetch : Pending(q, issues, clock, gen, filter)
                          => Pending(q, issues', clock', gen', filter')
    BY <1>2, <1>6, <2>1, <2>2 DEF DatabaseOK
  <2>4. TabOK'
    BY <1>7, <2>1, <2>2
  <2>5. DatabaseOK'
    BY <1>2, <2>1, <2>2, <2>3 DEF DatabaseOK
  <2>6. FetchesOK'
    BY <1>2, <2>1, <2>3 DEF FetchesOK
  <2> QED BY <2>4, <2>5, <2>6 DEF FeedInv
\* A write: what it does to the table, whoever it is by.
<1>9. ASSUME NEW i \in Ids, NEW s \in Statuses, Write(i, s), UNCHANGED <<clock, gen, filter>>
      PROVE  /\ DatabaseOK' /\ DOMAIN issues \subseteq DOMAIN issues' /\ i \in DOMAIN issues'
             /\ clock' \in 1..MaxClock /\ clock <= clock'
             /\ \A q \in Fetch : Pending(q, issues, clock, gen, filter)
                               => Pending(q, issues', clock', gen', filter')
  <2> DEFINE new == Put(issues, i, [status |-> s, stamp |-> clock])
  <2>1. /\ DOMAIN new = DOMAIN issues \cup {i}
        /\ new[i] = [status |-> s, stamp |-> clock]
        /\ \A j \in DOMAIN issues : j # i => new[j] = issues[j]
    BY DEF Put
  <2>2. issues' = new /\ writes' \in 0..MaxWrites
    BY <1>1, <1>2, <1>9 DEF Write, DatabaseOK
  <2> HIDE DEF new
  <2>3. /\ DOMAIN issues \subseteq DOMAIN issues' /\ DOMAIN issues' \subseteq Ids
        /\ i \in DOMAIN issues' /\ clock' \in 1..MaxClock /\ clock <= clock'
    BY <1>1, <1>2, <1>9, <2>1, <2>2 DEF DatabaseOK
  <2>4. \A j \in DOMAIN issues' : \/ j \in DOMAIN issues /\ issues'[j] = issues[j]
                                  \/ /\ issues'[j] \in [status: Statuses, stamp: {clock}]
                                     /\ issues'[j].stamp = clock
    BY <2>1, <2>2
  <2>5. /\ \A j \in DOMAIN issues' : issues'[j] \in [status: Statuses, stamp: 1..clock']
        /\ \A q \in Fetch : Pending(q, issues, clock, gen, filter)
                          => Pending(q, issues', clock', gen', filter')
    BY <1>6, <1>9, <2>3, <2>4
  <2>6. DatabaseOK'
    BY <2>2, <2>3, <2>5 DEF DatabaseOK
  <2> QED BY <2>3, <2>5, <2>6
<1>24. CASE Change
  <2>1. UNCHANGED <<clock, fetches, page>>
    BY <1>24 DEF Change
  <2>2. PICK i \in Ids, s \in Statuses : Write(i, s)
    BY <1>24 DEF Change
  <2>3. /\ DatabaseOK' /\ DOMAIN issues \subseteq DOMAIN issues'
        /\ clock' \in 1..MaxClock /\ clock <= clock'
        /\ \A q \in Fetch : Pending(q, issues, clock, gen, filter)
                          => Pending(q, issues', clock', gen', filter')
    BY <1>9, <2>1, <2>2
  <2>4. TabOK'
    BY <1>7, <2>1, <2>3
  <2>5. FetchesOK'
    BY <1>2, <2>1, <2>3 DEF FetchesOK
  <2> QED BY <2>3, <2>4, <2>5 DEF FeedInv
<1>25. CASE SelectIssue
  <2>1. UNCHANGED <<issues, writes, clock, filter, gen, window, total, cursor, lock, hint, fetches>>
    BY <1>25 DEF SelectIssue
  <2>2. open' = 0 \/ \E n \in DOMAIN window : open' = window[n].id
    BY <1>25 DEF SelectIssue
  <2>3. open' = 0 \/ open' \in DOMAIN issues
    BY <1>2, <2>2 DEF TabOK, Known
  <2>4. open' \in Ids \cup {0}
    BY <1>2, <2>3 DEF DatabaseOK
  <2>5. TabOK'
    BY <1>2, <2>1, <2>3, <2>4 DEF TabOK
  <2> QED BY <1>2, <2>1, <2>5 DEF FeedInv, DatabaseOK, FetchesOK
<1>26. CASE DismissRefreshHint
  <2>1. hint' = FALSE
        /\ UNCHANGED <<issues, writes, clock, filter, gen, window, total, cursor, lock, open, fetches>>
    BY <1>26 DEF DismissRefreshHint
  <2> QED BY <1>2, <2>1 DEF FeedInv, DatabaseOK, TabOK, FetchesOK
\* A request is sent.
<1>27. ASSUME NEW k \in Fetches, NEW kind \in {"load", "page", "poll", "save"}, NEW g \in 0..MaxLoads,
              NEW f \in {"all", "open"}, NEW offset \in Nat, NEW rows \in Seq(Row),
              Send(k, kind, g, f, offset, rows),
              UNCHANGED <<issues, clock>>, gen <= gen', gen' = g, filter' = f,
              gen' = gen => filter' = filter, gen' \in Nat,
              Known(rows, issues, clock), kind = "save" => Len(rows) = 1,
              kind # "save" => rows = <<>>
       PROVE  FetchesOK'
  <2> DEFINE since == IF kind = "poll" THEN cursor ELSE 0
             q == [kind |-> kind, step |-> "sent", gen |-> g, filter |-> f, offset |-> offset,
                   since |-> since, rows |-> rows, count |-> 0]
             new == Put(fetches, k, q)
  <2>1. since \in 0..clock /\ since \in 0..MaxClock /\ since <= clock
    BY <1>1, <1>2 DEF TabOK
  <2> HIDE DEF since
  <2>2. q \in Fetch
    BY <1>1, <2>1 DEF Fetch
  <2>3. Pending(q, issues', clock', gen', filter')
    <3>1. Known(q.rows, issues', clock') /\ q.since <= clock' /\ (q.kind = "save" => Len(q.rows) = 1)
      BY <1>27, <2>1
    <3>2. AskedFor(q, gen', filter')
      BY <1>1, <1>27 DEF AskedFor
    <3>3. Complete(q, issues')
      BY <1>27 DEF Complete
    <3> QED BY <3>1, <3>2, <3>3 DEF Pending
  <2> HIDE DEF q
  <2>4. DOMAIN new = DOMAIN fetches \cup {k} /\ new[k] = q /\ k \notin DOMAIN fetches
        /\ \A j \in DOMAIN fetches : new[j] = fetches[j]
    BY <1>27 DEF Put, Send
  <2>5. fetches' = new
    BY <1>27 DEF Send, q, since
  <2> HIDE DEF new
  <2>6. ASSUME NEW r \in Fetch, Pending(r, issues, clock, gen, filter)
        PROVE  Pending(r, issues', clock', gen', filter')
    <3>1. r.gen \in Nat
      BY <1>1 DEF Fetch
    <3>2. AskedFor(r, gen', filter')
      BY <1>1, <1>27, <2>6, <3>1 DEF Pending, AskedFor
    <3> QED BY <1>27, <2>6, <3>2 DEF Pending
  <2> QED BY <1>2, <2>2, <2>3, <2>4, <2>5, <2>6 DEF FetchesOK
<1>28. <<>> \in Seq(Row) /\ Known(<<>>, issues, clock) /\ 0 \in Nat
       /\ filter \in {"all", "open"} /\ gen \in 0..MaxLoads
  BY <1>2 DEF Known, TabOK
<1>10. ASSUME NEW k \in Fetches, LoadIssueWindow(k) PROVE FeedInv'
  <2>1. /\ gen < MaxLoads /\ gen' = gen + 1 /\ filter' \in {"all", "open"}
        /\ window' = <<>> /\ total' = 0 /\ cursor' = 0 /\ lock' = FALSE /\ hint' \in BOOLEAN
        /\ Send(k, "load", gen', filter', 0, <<>>) /\ UNCHANGED <<issues, writes, clock, open>>
    BY <1>2, <1>10 DEF LoadIssueWindow, TabOK
  <2>2. gen' \in 0..MaxLoads /\ gen <= gen' /\ gen' \in Nat /\ gen' # gen
    BY <1>1, <2>1
  <2>3. FetchesOK'
    BY <1>27, <1>28, <2>1, <2>2
  <2>4. TabOK'
    <3>1. 0 \in 0..MaxIssues /\ 0 \in 0..clock /\ DOMAIN <<>> = {}
      BY <1>1
    <3> QED BY <1>2, <1>28, <2>1, <2>2, <3>1 DEF TabOK
  <2> QED BY <1>2, <2>1, <2>3, <2>4 DEF FeedInv, DatabaseOK
<1>30. ASSUME NEW k \in Fetches, NEW kind \in {"page", "poll", "save"}, NEW offset \in Nat,
              NEW rows \in Seq(Row), Send(k, kind, gen, filter, offset, rows),
              UNCHANGED <<issues, clock, gen, filter>>, Known(rows, issues, clock),
              kind = "save" => Len(rows) = 1, kind # "save" => rows = <<>>
       PROVE  FetchesOK'
  <2>1. gen <= gen' /\ gen' = gen /\ filter' = filter /\ gen' \in Nat
    BY <1>1, <1>30
  <2>2. kind \in {"load", "page", "poll", "save"}
    BY <1>30
  <2> QED BY <1>27, <1>28, <1>30, <2>1, <2>2
<1>11. ASSUME NEW k \in Fetches, LoadNextPage(k) PROVE FeedInv'
  <2>1. /\ lock' = TRUE /\ Send(k, "page", gen, filter, Len(window), <<>>)
        /\ UNCHANGED <<issues, writes, clock, filter, gen, window, total, cursor, open, hint>>
    BY <1>11 DEF LoadNextPage
  <2>2. Len(window) \in Nat
    BY <1>2 DEF TabOK
  <2>3. FetchesOK'
    BY <1>28, <1>30, <2>1, <2>2
  <2> QED BY <1>2, <2>1, <2>3 DEF FeedInv, DatabaseOK, TabOK
<1>12. ASSUME NEW k \in Fetches, PollForChanges(k) PROVE FeedInv'
  <2>1. Send(k, "poll", gen, filter, 0, <<>>) /\ UNCHANGED <<issues, writes, clock, page>>
    BY <1>12 DEF PollForChanges
  <2>2. FetchesOK'
    BY <1>28, <1>30, <2>1
  <2> QED BY <1>3, <2>1, <2>2 DEF FeedInv
<1>13. ASSUME NEW k \in Fetches, DoSaveIssue(k) PROVE FeedInv'
  <2>1. open # 0 /\ UNCHANGED <<issues, writes, clock, page>>
    BY <1>13 DEF DoSaveIssue
  <2>2. PICK s \in Statuses : Send(k, "save", gen, filter, 0, <<[RowOf(open) EXCEPT !.status = s]>>)
    BY <1>13 DEF DoSaveIssue
  <2> DEFINE row == [RowOf(open) EXCEPT !.status = s]
  <2>3. open \in DOMAIN issues
    BY <1>2, <2>1 DEF TabOK
  <2>4. RowOf(open) \in Row /\ RowOf(open).id = open /\ RowOf(open).stamp \in 1..clock
    BY <1>2, <2>3, RowOfIsRow
  <2>5. row \in Row /\ row.id = open /\ row.stamp = RowOf(open).stamp
    BY <2>4 DEF Row
  <2> HIDE DEF row
  <2>6. <<row>> \in Seq(Row) /\ Len(<<row>>) = 1 /\ Known(<<row>>, issues, clock)
    BY <1>1, <2>3, <2>4, <2>5 DEF Known
  <2>7. Send(k, "save", gen, filter, 0, <<row>>)
    BY <2>2 DEF row
  <2>8. FetchesOK'
    BY <1>28, <1>30, <2>1, <2>6, <2>7
  <2> QED BY <1>3, <2>1, <2>8 DEF FeedInv
\* The server answers.
<1>29. \A f : Listed(f) \subseteq DOMAIN issues
  BY DEF Listed
<1>14. ASSUME NEW k \in Fetches, CountIssues(k) PROVE FeedInv'
  <2> DEFINE n == Cardinality(Listed(fetches[k].filter))
             q == [fetches[k] EXCEPT !.step = "counted", !.count = n]
  <2>1. k \in DOMAIN fetches /\ fetches' = [fetches EXCEPT ![k] = q]
        /\ UNCHANGED <<issues, writes, clock, page>>
    BY <1>14 DEF CountIssues, IsPage
  <2>2. fetches[k] \in Fetch /\ Pending(fetches[k], issues, clock, gen, filter)
    BY <1>2, <2>1 DEF FetchesOK
  <2>3. n \in 0..MaxIssues
    BY <1>2, <1>29, RowsOfIssues
  <2> HIDE DEF n
  <2>4. /\ q \in Fetch /\ q.kind = fetches[k].kind /\ q.rows = fetches[k].rows
        /\ q.since = fetches[k].since /\ q.gen = fetches[k].gen /\ q.filter = fetches[k].filter
    BY <2>2, <2>3 DEF Fetch
  <2> HIDE DEF q
  <2>5. Pending(q, issues, clock, gen, filter)
    BY <2>2, <2>4 DEF Pending, AskedFor, Complete
  <2>6. FetchesOK'
    BY <1>5, <2>1, <2>4, <2>5
  <2> QED BY <1>3, <2>1, <2>6 DEF FeedInv
<1>15. ASSUME NEW k \in Fetches, ListIssues(k) PROVE FeedInv'
  <2> DEFINE listed == Rows(Listed(fetches[k].filter))
             rows == PageAt(listed, fetches[k].offset)
             q == [fetches[k] EXCEPT !.step = "answered", !.rows = rows]
  <2>1. k \in DOMAIN fetches /\ fetches' = [fetches EXCEPT ![k] = q]
        /\ fetches[k].kind \in {"load", "page"} /\ UNCHANGED <<issues, writes, clock, page>>
    BY <1>15 DEF ListIssues, IsPage
  <2>2. /\ fetches[k] \in Fetch /\ Pending(fetches[k], issues, clock, gen, filter)
        /\ fetches[k].offset \in Nat
    BY <1>2, <2>1 DEF FetchesOK, Fetch
  <2>3. /\ listed \in Seq(Row) /\ Known(listed, issues, clock)
        /\ \A n \in DOMAIN listed : \E i \in Listed(fetches[k].filter) : listed[n] = RowOf(i)
    BY <1>2, <1>29, RowsOfIssues
  <2>4. \A n \in DOMAIN listed : Matches(listed[n], fetches[k].filter)
    <3> SUFFICES ASSUME NEW n \in DOMAIN listed PROVE Matches(listed[n], fetches[k].filter)
      OBVIOUS
    <3>1. PICK i \in Listed(fetches[k].filter) : listed[n] = RowOf(i)
      BY <2>3
    <3>2. i \in DOMAIN issues /\ Matches(issues[i], fetches[k].filter)
      BY DEF Listed
    <3>3. RowOf(i).status = issues[i].status
      BY DEF RowOf
    <3> HIDE DEF listed
    <3> QED BY <3>1, <3>2, <3>3 DEF Matches
  <2> HIDE DEF listed
  <2>5. rows \in Seq(Row) /\ ToSet(rows) \subseteq ToSet(listed)
    BY <2>2, <2>3, PageMembers
  <2>6. \A m \in DOMAIN rows : \E n \in DOMAIN listed : rows[m] = listed[n]
    BY <2>5 DEF ToSet
  <2> HIDE DEF rows
  <2>7. Known(rows, issues, clock) /\ \A m \in DOMAIN rows : Matches(rows[m], fetches[k].filter)
    BY <2>3, <2>4, <2>6 DEF Known
  <2>8. /\ q \in Fetch /\ q.kind = fetches[k].kind /\ q.rows = rows
        /\ q.since = fetches[k].since /\ q.gen = fetches[k].gen /\ q.filter = fetches[k].filter
    BY <2>2, <2>5 DEF Fetch
  <2> HIDE DEF q
  <2>9. Pending(q, issues, clock, gen, filter)
    BY <2>1, <2>2, <2>7, <2>8 DEF Pending, AskedFor, Complete
  <2>10. FetchesOK'
    BY <1>5, <2>1, <2>8, <2>9
  <2> QED BY <1>3, <2>1, <2>10 DEF FeedInv
<1>16. ASSUME NEW k \in Fetches, ListChanges(k) PROVE FeedInv'
  <2> DEFINE ids == Changes(fetches[k].since, fetches[k].filter)
             rows == Rows(ids)
             q == [fetches[k] EXCEPT !.step = "answered", !.rows = rows]
  <2>1. k \in DOMAIN fetches /\ fetches' = [fetches EXCEPT ![k] = q]
        /\ fetches[k].kind = "poll" /\ UNCHANGED <<issues, writes, clock, page>>
    BY <1>16 DEF ListChanges, FetchAt
  <2>2. fetches[k] \in Fetch /\ Pending(fetches[k], issues, clock, gen, filter)
    BY <1>2, <2>1 DEF FetchesOK
  <2>3. ids \subseteq DOMAIN issues
    BY DEF Changes
  <2>4. /\ rows \in Seq(Row) /\ Known(rows, issues, clock)
        /\ \A i \in ids : \E n \in DOMAIN rows : rows[n] = RowOf(i)
        /\ \A m, n \in DOMAIN rows : rows[m].id = rows[n].id => m = n
    BY <1>2, <2>3, RowsOfIssues
  <2>5. \A i \in DOMAIN issues : fetches[k].since < issues[i].stamp => i \in ids
    <3>1. fetches[k].since \in Nat /\ \A i \in DOMAIN issues : issues[i].stamp \in Nat
      <4>1. fetches[k].since \in 0..MaxClock
        BY <2>2 DEF Fetch
      <4>2. \A i \in DOMAIN issues : issues[i].stamp \in 1..clock
        BY <1>2 DEF DatabaseOK
      <4> QED BY <1>1, <4>1, <4>2
    <3> QED BY <3>1 DEF Changes
  <2> HIDE DEF ids, rows
  <2>6. /\ q \in Fetch /\ q.kind = "poll" /\ q.rows = rows
        /\ q.since = fetches[k].since /\ q.gen = fetches[k].gen /\ q.filter = fetches[k].filter
    BY <2>1, <2>2, <2>4 DEF Fetch
  <2> HIDE DEF q
  <2>7. Complete(q, issues)
    BY <2>4, <2>5, <2>6 DEF Complete, RowIn, RowOf
  <2>8. Pending(q, issues, clock, gen, filter)
    BY <2>2, <2>4, <2>6, <2>7 DEF Pending, AskedFor
  <2>9. FetchesOK'
    BY <1>5, <2>1, <2>6, <2>8
  <2> QED BY <1>3, <2>1, <2>9 DEF FeedInv
<1>17. ASSUME NEW k \in Fetches, UpdateIssue(k) PROVE FeedInv'
  <2> DEFINE row == fetches[k].rows[1]
             saved == [row EXCEPT !.stamp = clock]
             q == [fetches[k] EXCEPT !.step = "answered", !.rows = <<saved>>]
  <2>1. /\ k \in DOMAIN fetches /\ fetches[k].kind = "save" /\ Write(row.id, row.status)
        /\ fetches' = [fetches EXCEPT ![k] = q] /\ UNCHANGED <<clock, page>>
    BY <1>17 DEF UpdateIssue, FetchAt
  <2>2. /\ fetches[k] \in Fetch /\ Pending(fetches[k], issues, clock, gen, filter)
        /\ fetches[k].rows \in Seq(Row) /\ Len(fetches[k].rows) = 1
    BY <1>2, <2>1 DEF FetchesOK, Fetch, Pending
  <2>3. row \in Row
    BY <2>2
  <2> HIDE DEF row
  <2>4. row.id \in Ids /\ row.status \in Statuses
    BY <2>3 DEF Row
  <2>5. /\ DatabaseOK' /\ DOMAIN issues \subseteq DOMAIN issues' /\ row.id \in DOMAIN issues'
        /\ clock' \in 1..MaxClock /\ clock <= clock'
        /\ \A r \in Fetch : Pending(r, issues, clock, gen, filter)
                          => Pending(r, issues', clock', gen', filter')
    BY <1>9, <2>1, <2>4
  <2>6. saved \in Row /\ saved.id = row.id /\ saved.stamp = clock
    BY <1>1, <2>3 DEF Row
  <2> HIDE DEF saved
  <2>7. <<saved>> \in Seq(Row) /\ Len(<<saved>>) = 1 /\ Known(<<saved>>, issues', clock')
    BY <1>1, <2>1, <2>5, <2>6 DEF Known
  <2>8. /\ q \in Fetch /\ q.kind = "save" /\ q.rows = <<saved>>
        /\ q.since = fetches[k].since /\ q.gen = fetches[k].gen /\ q.filter = fetches[k].filter
    BY <2>1, <2>2, <2>7 DEF Fetch
  <2> HIDE DEF q
  <2>9. Pending(q, issues', clock', gen', filter')
    BY <2>1, <2>2, <2>7, <2>8 DEF Pending, AskedFor, Complete
  <2>10. DOMAIN fetches' = DOMAIN fetches /\ fetches'[k] = q
         /\ \A j \in DOMAIN fetches : j # k => fetches'[j] = fetches[j]
    BY <2>1
  <2>11. FetchesOK'
    BY <1>2, <2>5, <2>8, <2>9, <2>10 DEF FetchesOK
  <2>12. TabOK'
    BY <1>7, <2>1, <2>5
  <2> QED BY <2>5, <2>11, <2>12 DEF FeedInv
\* The tab takes an answer: what the answer is like, and what is fit to be shown.
<1>31. ASSUME NEW k \in DOMAIN fetches
       PROVE  /\ fetches[k] \in Fetch /\ Pending(fetches[k], issues, clock, gen, filter)
              /\ fetches[k].rows \in Seq(Row) /\ Known(fetches[k].rows, issues, clock)
              /\ fetches[k].count \in 0..MaxIssues
  BY <1>2 DEF FetchesOK, Fetch, Pending
<1>32. ASSUME NEW since \in 0..clock, NEW rows \in Seq(Row), Known(rows, issues, clock)
       PROVE  Latest(since, rows) \in 0..clock
  <2>1. since \in 0..MaxClock
    BY <1>1, <1>32
  <2>2. Latest(since, rows) \in 0..MaxClock
    BY <2>1, LatestStamp
  <2>3. Latest(since, rows) = since \/ \E n \in DOMAIN rows : rows[n].stamp = Latest(since, rows)
    BY <2>1, LatestStamp
  <2>4. Latest(since, rows) <= clock
    BY <1>1, <1>32, <2>3 DEF Known
  <2> QED BY <1>1, <2>2, <2>4
<1>33. ASSUME UNCHANGED <<issues, clock, filter>>,
              \A m \in DOMAIN window' :
                \/ \E n \in DOMAIN window : window'[m] = window[n]
                \/ /\ window'[m].id \in DOMAIN issues /\ window'[m].stamp <= clock
                   /\ Matches(window'[m], filter)
       PROVE  Known(window', issues', clock') /\ \A n \in DOMAIN window' : Matches(window'[n], filter')
  <2>1. \A n \in DOMAIN window : window[n].id \in DOMAIN issues /\ window[n].stamp <= clock
                                  /\ Matches(window[n], filter)
    BY <1>2 DEF TabOK, Known
  <2>2. \A m \in DOMAIN window' : window'[m].id \in DOMAIN issues /\ window'[m].stamp <= clock
                                   /\ Matches(window'[m], filter)
    BY <1>33, <2>1
  <2> QED BY <1>33, <2>2 DEF Known
<1>34. ASSUME NEW k \in DOMAIN fetches, fetches[k].kind \in {"load", "page"}, OfThisLoad(k)
       PROVE  \A n \in DOMAIN fetches[k].rows : Matches(fetches[k].rows[n], filter)
  BY <1>31, <1>34 DEF Pending, AskedFor, OfThisLoad
<1>18. ASSUME NEW k \in Fetches, LoadAnswer(k) PROVE FeedInv'
  <2>1. /\ k \in DOMAIN fetches /\ fetches[k].kind = "load" /\ fetches' = Without(fetches, {k})
        /\ UNCHANGED <<issues, writes, clock, filter, gen, lock, open, hint>>
    BY <1>18 DEF LoadAnswer, Answered, FetchAt
  <2>2. FetchesOK'
    BY <1>4, <2>1
  <2>3. CASE OfThisLoad(k)
    <3>1. /\ window' = fetches[k].rows /\ total' = fetches[k].count
          /\ cursor' = Latest(clock, fetches[k].rows)
      BY <1>18, <2>3 DEF LoadAnswer
    <3>2. clock \in 0..clock
      BY <1>1
    <3>3. window' \in Seq(Row) /\ total' \in 0..MaxIssues /\ cursor' \in 0..clock
      BY <1>31, <1>32, <2>1, <3>1, <3>2
    <3>4. Known(window', issues', clock') /\ \A n \in DOMAIN window' : Matches(window'[n], filter')
      BY <1>31, <1>34, <2>1, <2>3, <3>1
    <3>5. TabOK'
      BY <1>2, <2>1, <3>3, <3>4 DEF TabOK
    <3> QED BY <1>2, <2>1, <2>2, <3>5 DEF FeedInv, DatabaseOK
  <2>4. CASE ~OfThisLoad(k)
    <3>1. UNCHANGED <<window, total, cursor>>
      BY <1>18, <2>4 DEF LoadAnswer
    <3> QED BY <1>3, <2>1, <2>2, <3>1 DEF FeedInv
  <2> QED BY <2>3, <2>4
<1>19. ASSUME NEW k \in Fetches, PageAnswer(k) PROVE FeedInv'
  <2>1. /\ k \in DOMAIN fetches /\ fetches[k].kind = "page" /\ fetches' = Without(fetches, {k})
        /\ lock' = FALSE /\ UNCHANGED <<issues, writes, clock, filter, gen, open, hint>>
    BY <1>19 DEF PageAnswer, Answered, FetchAt
  <2>2. FetchesOK'
    BY <1>4, <2>1
  <2> DEFINE rows == fetches[k].rows
  <2>3. rows \in Seq(Row) /\ Known(rows, issues, clock) /\ window \in Seq(Row) /\ cursor \in 0..clock
    BY <1>2, <1>31, <2>1 DEF TabOK
  <2>4. CASE OfThisLoad(k)
    <3>1. window' = window \o rows /\ total' = fetches[k].count /\ cursor' = Latest(cursor, rows)
      BY <1>19, <2>4 DEF PageAnswer
    <3>2. \A n \in DOMAIN rows : Matches(rows[n], filter)
      BY <1>34, <2>1, <2>4
    <3>3. total' \in 0..MaxIssues /\ cursor' \in 0..clock
      BY <1>31, <1>32, <2>1, <2>3, <3>1
    <3> HIDE DEF rows
    <3>4. window' \in Seq(Row) /\ ToSet(window') = ToSet(window) \cup ToSet(rows)
      BY <2>3, <3>1, ConcatMembers
    <3>5. ASSUME NEW m \in DOMAIN window'
          PROVE  \/ \E n \in DOMAIN window : window'[m] = window[n]
                 \/ /\ window'[m].id \in DOMAIN issues /\ window'[m].stamp <= clock
                    /\ Matches(window'[m], filter)
      <4>1. window'[m] \in ToSet(window) \/ window'[m] \in ToSet(rows)
        BY <3>4 DEF ToSet
      <4>2. CASE window'[m] \in ToSet(window)
        BY <4>2 DEF ToSet
      <4>3. CASE window'[m] \in ToSet(rows)
        BY <2>3, <3>2, <4>3 DEF ToSet, Known
      <4> QED BY <4>1, <4>2, <4>3
    <3>6. Known(window', issues', clock') /\ \A n \in DOMAIN window' : Matches(window'[n], filter')
      BY <1>33, <2>1, <3>5
    <3>7. TabOK'
      BY <1>2, <2>1, <3>3, <3>4, <3>6 DEF TabOK
    <3> QED BY <1>2, <2>1, <2>2, <3>7 DEF FeedInv, DatabaseOK
  <2>5. CASE ~OfThisLoad(k)
    <3>1. UNCHANGED <<window, total, cursor>>
      BY <1>19, <2>5 DEF PageAnswer
    <3> QED BY <1>2, <2>1, <2>2, <3>1 DEF FeedInv, DatabaseOK, TabOK
  <2> QED BY <2>4, <2>5
<1>35. \A n \in 0..MaxIssues, m \in Nat : LessOrZero(n, m) \in 0..MaxIssues
  BY <1>1 DEF LessOrZero
<1>20. ASSUME NEW k \in Fetches, PollAnswer(k) PROVE FeedInv'
  <2> DEFINE rows == fetches[k].rows
             new == Refreshed(rows)
             news == \E r \in ToSet(rows) : ~InWindow(r.id) /\ Matches(r, filter)
  <2>1. /\ k \in DOMAIN fetches /\ fetches' = Without(fetches, {k})
        /\ UNCHANGED <<issues, writes, clock, filter, gen, lock, open>>
    BY <1>20 DEF PollAnswer, Answered, FetchAt
  <2>2. /\ window' = new /\ total' = LessOrZero(total, Len(window) - Len(window'))
        /\ cursor' = Latest(cursor, rows) /\ hint' = (hint \/ news)
    BY <1>20 DEF PollAnswer, Forward
  <2>3. FetchesOK'
    BY <1>4, <2>1
  <2>4. /\ rows \in Seq(Row) /\ Known(rows, issues, clock) /\ window \in Seq(Row)
        /\ cursor \in 0..clock /\ total \in 0..MaxIssues
    BY <1>2, <1>31, <2>1 DEF TabOK
  <2> HIDE DEF rows
  <2>5. /\ new \in Seq(Row) /\ Len(new) \in 0..Len(window)
        /\ \A m \in DOMAIN new :
              \/ (\E n \in DOMAIN rows : new[m] = rows[n]) /\ Matches(new[m], filter)
              \/ \E n \in DOMAIN window : new[m] = window[n]
    BY <2>4, RefreshedRows
  <2> HIDE DEF new, news
  <2>6. Known(window', issues', clock') /\ \A n \in DOMAIN window' : Matches(window'[n], filter')
    <3>1. \A m \in DOMAIN window' :
                \/ \E n \in DOMAIN window : window'[m] = window[n]
                \/ /\ window'[m].id \in DOMAIN issues /\ window'[m].stamp <= clock
                   /\ Matches(window'[m], filter)
      BY <2>2, <2>4, <2>5 DEF Known
    <3> QED BY <1>33, <2>1, <3>1
  <2>7. hint' \in BOOLEAN
    BY <2>2
  <2>8. Len(window) - Len(window') \in Nat
    BY <2>2, <2>4, <2>5
  <2>9. total' \in 0..MaxIssues /\ cursor' \in 0..clock /\ window' \in Seq(Row)
    BY <1>32, <1>35, <2>2, <2>4, <2>5, <2>8
  <2>10. TabOK'
    BY <1>2, <2>1, <2>6, <2>7, <2>9 DEF TabOK
  <2> QED BY <1>2, <2>1, <2>3, <2>10 DEF FeedInv, DatabaseOK
<1>21. ASSUME NEW k \in Fetches, SaveAnswer(k) PROVE FeedInv'
  <2> DEFINE row == fetches[k].rows[1]
             p == Position(row.id)
  <2>1. /\ k \in DOMAIN fetches /\ fetches[k].kind = "save" /\ fetches' = Without(fetches, {k})
        /\ UNCHANGED <<issues, writes, clock, filter, gen, lock, hint>>
        /\ cursor' = Latest(cursor, <<row>>)
    BY <1>21 DEF SaveAnswer, Answered, FetchAt
  <2>2. FetchesOK'
    BY <1>4, <2>1
  <2>3. /\ window \in Seq(Row) /\ cursor \in 0..clock /\ total \in 0..MaxIssues
        /\ open \in Ids \cup {0} /\ (open = 0 \/ open \in DOMAIN issues)
    BY <1>2 DEF TabOK
  <2>4. row \in Row /\ row.id \in DOMAIN issues /\ row.stamp <= clock
    <3>1. Len(fetches[k].rows) = 1 /\ fetches[k].rows \in Seq(Row) /\ Known(fetches[k].rows, issues, clock)
      BY <1>31, <2>1 DEF Pending
    <3>2. 1 \in DOMAIN fetches[k].rows
      BY <3>1
    <3> QED BY <3>1, <3>2 DEF Known
  <2>5. \/ ~InWindow(row.id) /\ UNCHANGED <<window, total, open>>
        \/ /\ InWindow(row.id) /\ Matches(row, filter)
           /\ window' = [window EXCEPT ![p] = row] /\ UNCHANGED <<total, open>>
        \/ /\ InWindow(row.id)
           /\ window' = RemoveAt(window, p) /\ total' = LessOrZero(total, 1) /\ open' = 0
    BY <1>21 DEF SaveAnswer
  <2> HIDE DEF row
  <2>6. cursor' \in 0..clock
    <3>1. <<row>> \in Seq(Row) /\ Known(<<row>>, issues, clock)
      BY <2>4 DEF Known
    <3> QED BY <1>32, <2>1, <2>3, <3>1
  <2>7. InWindow(row.id) => p \in DOMAIN window
    BY <2>3, PositionIsFirst
  <2> HIDE DEF p
  <2>8. /\ window' \in Seq(Row) /\ total' \in 0..MaxIssues
        /\ open' \in Ids \cup {0} /\ (open' = 0 \/ open' \in DOMAIN issues)
        /\ \A m \in DOMAIN window' :
              \/ \E n \in DOMAIN window : window'[m] = window[n]
              \/ /\ window'[m].id \in DOMAIN issues /\ window'[m].stamp <= clock
                 /\ Matches(window'[m], filter)
    <3>1. CASE UNCHANGED <<window, total, open>>
      BY <2>3, <3>1
    <3>2. CASE /\ InWindow(row.id) /\ Matches(row, filter)
               /\ window' = [window EXCEPT ![p] = row] /\ UNCHANGED <<total, open>>
      <4>1. window' \in Seq(Row) /\ DOMAIN window' = DOMAIN window
        BY <2>3, <2>4, <2>7, <3>2
      <4>2. \A m \in DOMAIN window : window'[m] = row \/ window'[m] = window[m]
        BY <3>2
      <4> QED BY <2>3, <2>4, <3>2, <4>1, <4>2
    <3>3. CASE /\ InWindow(row.id)
               /\ window' = RemoveAt(window, p) /\ total' = LessOrZero(total, 1) /\ open' = 0
      <4>1. window' \in Seq(Row) /\ ToSet(window') \subseteq ToSet(window)
        BY <2>3, <2>7, <3>3, RemoveAtMembers
      <4>2. \A m \in DOMAIN window' : \E n \in DOMAIN window : window'[m] = window[n]
        BY <4>1 DEF ToSet
      <4>3. total' \in 0..MaxIssues /\ 1 \in Nat
        BY <1>35, <2>3, <3>3
      <4> QED BY <3>3, <4>1, <4>2, <4>3
    <3> QED BY <2>5, <3>1, <3>2, <3>3
  <2>9. Known(window', issues', clock') /\ \A n \in DOMAIN window' : Matches(window'[n], filter')
    BY <1>33, <2>1, <2>8
  <2>10. TabOK'
    BY <1>2, <2>1, <2>6, <2>8, <2>9 DEF TabOK
  <2> QED BY <1>2, <2>1, <2>2, <2>10 DEF FeedInv, DatabaseOK
<1>22. ASSUME NEW k \in Fetches, Fail(k) PROVE FeedInv'
  <2>1. /\ fetches' = Without(fetches, {k}) /\ lock' = (lock /\ fetches[k].kind # "page")
        /\ UNCHANGED <<issues, writes, clock, filter, gen, window, total, cursor, open, hint>>
    BY <1>22 DEF Fail
  <2>2. FetchesOK'
    BY <1>4, <2>1
  <2>3. lock' \in BOOLEAN
    BY <2>1
  <2>4. TabOK'
    BY <1>2, <2>1, <2>3 DEF TabOK
  <2> QED BY <1>2, <2>1, <2>2, <2>4 DEF FeedInv, DatabaseOK
<1>23. CASE UNCHANGED vars
  BY <1>2, <1>23 DEF vars, FeedInv, DatabaseOK, TabOK, FetchesOK
<1> QED BY <1>8, <1>24, <1>25, <1>26, <1>10, <1>11, <1>12, <1>13, <1>14, <1>15, <1>16, <1>17,
           <1>18, <1>19, <1>20, <1>21, <1>22, <1>23 DEF Next, Handle, Take

-----------------------------------------------------------------------------

\* A request for another filter, or for a window since given up, never puts a row
\* on the screen that the filter above it leaves out; and all that TypeOK says
\* (loadIssueWindow, loadNextPage, pollForChanges and doSaveIssue together).
THEOREM ScreenKeepsItsFilter == Spec => []WindowMatchesFilter
<1>1. FeedInv => WindowMatchesFilter
  BY DEF FeedInv, DatabaseOK, TabOK, FetchesOK, TypeOK, WindowMatchesFilter
<1> QED BY <1>1, FeedBegins, FeedSteps, PTL DEF Spec

\* What the answer to a poll does about a change that it moves the cursor over.
LEMMA PollAnswerShows ==
  ASSUME FeedInv, NEW k \in Fetches, PollAnswer(k), NEW i \in DOMAIN issues,
         fetches[k].since <= cursor, cursor < issues[i].stamp, issues[i].stamp < cursor'
  PROVE  Shows(i)
<1> DEFINE rows == fetches[k].rows
<1>1. DatabaseOK /\ TabOK /\ FetchesOK
  BY DEF FeedInv
<1>2. k \in DOMAIN fetches /\ fetches[k].kind = "poll" /\ cursor' = Latest(cursor, rows)
  BY DEF PollAnswer, Answered, FetchAt, Forward
<1>3. window' = Refreshed(rows)
      /\ hint' = (hint \/ \E r \in ToSet(rows) : ~InWindow(r.id) /\ Matches(r, filter))
  BY DEF PollAnswer
<1>4. fetches[k] \in Fetch /\ Complete(fetches[k], issues)
  BY <1>1, <1>2 DEF FetchesOK, Pending
<1>5. rows \in Seq(Row) /\ fetches[k].since \in Nat
  <2>1. rows \in Seq(Row) /\ fetches[k].since \in 0..MaxClock
    BY <1>4 DEF Fetch
  <2> QED BY <2>1, FeedAssumption
<1>6. /\ \A m, n \in DOMAIN rows : rows[m].id = rows[n].id => m = n
      /\ \A n \in DOMAIN rows :
           fetches[k].since < issues[i].stamp /\ issues[i].stamp < rows[n].stamp =>
             \E m \in DOMAIN rows : rows[m] = RowIn(issues, i)
  BY <1>2, <1>4 DEF Complete
<1> HIDE DEF rows
<1>7. window \in Seq(Row) /\ cursor \in Nat /\ cursor \in 0..MaxClock /\ issues[i].stamp \in Nat
  <2>1. clock \in 1..MaxClock /\ MaxClock \in Nat /\ cursor \in 0..clock /\ issues[i].stamp \in 1..clock
    BY <1>1, FeedAssumption DEF DatabaseOK, TabOK
  <2> QED BY <1>1, <2>1 DEF TabOK
\* The answer has the issue as it is.
<1>8. PICK n \in DOMAIN rows : rows[n].stamp = cursor'
  <2>1. cursor' # cursor
    BY <1>7
  <2> QED BY <1>2, <1>5, <1>7, <2>1, LatestStamp
<1>9. PICK m \in DOMAIN rows : rows[m] = RowOf(i)
  <2>1. fetches[k].since < issues[i].stamp
    BY <1>5, <1>7
  <2>2. \E m \in DOMAIN rows : rows[m] = RowIn(issues, i)
    BY <1>6, <1>8, <2>1
  <2> QED BY <2>2 DEF RowIn, RowOf
<1>10. RowOf(i).id = i /\ RowOf(i) \in ToSet(rows)
       /\ (Matches(RowOf(i), filter) <=> Matches(issues[i], filter))
  BY <1>9 DEF RowOf, Matches, ToSet
<1>11. Changed(rows, i) /\ RowFor(rows, i) = RowOf(i)
  <2>1. Changed(rows, i)
    BY <1>10 DEF Changed
  <2>2. PICK p \in DOMAIN rows : rows[p] = RowFor(rows, i) /\ rows[p].id = i
    BY <2>1, RowForIssue
  <2>3. p = m
    BY <1>6, <1>9, <1>10, <2>2
  <2> QED BY <1>9, <2>1, <2>2, <2>3
\* Its first row in the window, if it has one.
<1>12. ASSUME open # i, InWindow(i)
       PROVE  IF Matches(issues[i], filter)
              THEN \E p \in DOMAIN window' : window'[p] = RowOf(i)
              ELSE Len(window') < Len(window)
  <2> DEFINE first == Position(i)
  <2>1. first \in DOMAIN window /\ window[first].id = i
    BY <1>7, <1>12, PositionIsFirst
  <2>2. Position(window[first].id) = first
    BY <2>1
  <2> HIDE DEF first
  <2>3. Touched(rows, first)
    BY <1>11, <1>12, <2>1, <2>2 DEF Touched
  <2>4. IF Matches(RowOf(i), filter)
        THEN \E p \in DOMAIN Refreshed(rows) : Refreshed(rows)[p] = RowOf(i)
        ELSE Len(Refreshed(rows)) < Len(window)
    BY <1>5, <1>7, <1>11, <2>1, <2>3, RefreshedRows
  <2> QED BY <1>3, <1>10, <2>4
<1>13. ASSUME ~InWindow(i), Matches(issues[i], filter)
       PROVE  hint'
  BY <1>3, <1>10, <1>13, Zenon
<1> QED BY <1>12, <1>13 DEF Shows

\* A poll that moves the cursor over a change has shown the change, or says that
\* there is one, or has taken away a row the filter no longer lists.
THEOREM PollsShowChanges == Spec => PollShows
<1> DEFINE Told(k) == PollAnswer(k) =>
             \A i \in DOMAIN issues :
               /\ 0 < cursor /\ fetches[k].since <= cursor
               /\ cursor < issues[i].stamp /\ issues[i].stamp < cursor'
               => Shows(i)
<1>1. FeedInv /\ [Next]_vars => [\A k \in Fetches : Told(k)]_vars
  BY PollAnswerShows
<1> QED BY <1>1, FeedBegins, FeedSteps, PTL DEF Spec, PollShows
=============================================================================
