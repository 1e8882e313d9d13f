----------------------------- MODULE CliProofs -----------------------------
(***************************************************************************)
(* Proofs about Exec and Cli, for any command lines, files, exit codes and *)
(* numbers of invocations, sessions and connection attempts: a code the    *)
(* host is given is that of its own command, and a warm image is one that  *)
(* can be run from; the terminal comes back, the container's callbacks     *)
(* find their sink, saved states keep the identity they can be restored    *)
(* under, status 0 is the guest's, and the sessions that invocations make  *)
(* are sessions of Exec, with what is proved of them.                      *)
(***************************************************************************)
EXTENDS Cli, CommandLineProofs

(* Exec.  The inductive invariant ties the exit code along its way, from   *)
(* the child to the wire to the host, to the session that sent the         *)
(* command, and says what a guest that is about to be saved can be doing.  *)

CodeInv ==
    /\ agent.at = "run" =>
          /\ child \in [cmd : {session}, exit : Codes \cup {None}]
          /\ agent.serving = "main"
    /\ written # None =>
          agent.at = "halt" /\ child = [cmd |-> session, exit |-> written]
    /\ answer # None => answer = written
    /\ host = "start" => vm = "off" /\ written = None /\ answer = None
    /\ wire["probe"] # "command"
    /\ agent.at = "read" => agent.serving \in Ends
    /\ vm = "running" => session # 0

SaveInv ==
    op = "save" =>
        /\ wire["main"] # "command"
        /\ agent.serving # "main"
        /\ agent.at # "run"
        /\ backlog \in {<<>>, <<"probe">>}
        /\ host \in {"start", "connect"} => backlog = <<>>
        /\ host \in {"settle", "save"} => agent.at \in {"accept", "read"}
        /\ host # "send"

ImageInv ==
    image # None =>
        /\ image.agent \in Agents
        /\ image.backlog \in {<<>>, <<"probe">>}
        /\ image.agent.at \in {"accept", "read"}
        /\ image.agent.serving # "main"
        /\ image.agent.at = "read" => image.agent.serving \in Ends

OpInv ==
    /\ op = "run" => image # None
    /\ host \in {"settle", "save"} => op = "save"
    /\ host \in {"start", "connect"} => attempts # 0
    /\ host # "idle" => session # 0

ExecInv ==
    TypeOK /\ CodeInv /\ SaveInv /\ ImageInv /\ OpInv

\* Before the first session the invariant holds.
LEMMA InitInv == Init => ExecInv
<1> SUFFICES ASSUME Init PROVE ExecInv
  OBVIOUS
<1> USE ExecAssumption DEF Init, Booting
<1>1. TypeOK
  <2>1. agent \in Agents
    BY DEF Agents
  <2>2. backlog \in Seq(Ends)
    OBVIOUS
  <2>3. wire \in [Ends -> {"none", "open", "command", "closed"}]
    OBVIOUS
  <2>4. session \in 0..MaxSessions /\ attempts \in 0..MaxAttempts
    OBVIOUS
  <2> QED
    BY Zenon, <2>1, <2>2, <2>3, <2>4 DEF TypeOK
<1>2. CodeInv /\ SaveInv
  BY DEF CodeInv, SaveInv, Ends
<1>3. ImageInv /\ OpInv
  BY DEF ImageInv, OpInv
<1> QED
  BY <1>1, <1>2, <1>3 DEF ExecInv

\* Types are kept.
LEMMA TypeStep == ASSUME ExecInv, [Next]_vars PROVE TypeOK'
<1>t. TypeOK /\ CodeInv /\ OpInv
  BY DEF ExecInv
<1>1. CASE \E kind \in {"exec", "save", "run"}, fwd \in BOOLEAN :
             Begin(kind, fwd)
  BY <1>1, <1>t, ExecAssumption DEF Begin, Booting, TypeOK, Agents, Ends,
     hostVars, guestVars, linkVars
<1>2. CASE StartVm
  BY <1>2, <1>t, ExecAssumption DEF StartVm, OpInv, TypeOK, Agents, Ends,
     hostVars, guestVars, linkVars
<1>3. CASE StartFails
  BY <1>3, <1>t, ExecAssumption DEF StartFails, Throws, TypeOK, Agents, Ends,
     hostVars, guestVars, linkVars
<1>4. CASE Connect
  BY <1>4, <1>t, ExecAssumption DEF Connect, Listening, End, TypeOK, Agents,
     Ends, hostVars, guestVars, linkVars
<1>5. CASE ConnectFails
  BY <1>5, <1>t, ExecAssumption DEF ConnectFails, Listening, OpInv, TypeOK,
     Agents, Ends, hostVars, guestVars, linkVars
<1>6. CASE CloseProbe
  BY <1>6, <1>t, ExecAssumption DEF CloseProbe, TypeOK, Agents, Ends,
     hostVars, guestVars, linkVars
<1>7. CASE PauseAndSave
  BY <1>7, <1>t, ExecAssumption DEF PauseAndSave, TypeOK, Agents, Ends,
     hostVars, guestVars, linkVars
<1>8. CASE SaveFails
  BY <1>8, <1>t, ExecAssumption DEF SaveFails, Throws, TypeOK, Agents, Ends,
     hostVars, guestVars, linkVars
<1>9. CASE SendCommand
  BY <1>9, <1>t, ExecAssumption DEF SendCommand, TypeOK, Agents, Ends,
     hostVars, guestVars, linkVars
<1>10. CASE SendFails
  BY <1>10, <1>t, ExecAssumption DEF SendFails, Throws, TypeOK, Agents, Ends,
     hostVars, guestVars, linkVars
<1>11. CASE ReadCode
  BY <1>11, <1>t, ExecAssumption DEF ReadCode, TypeOK, Agents, Ends, hostVars,
     guestVars, linkVars
<1>12. CASE ShortRead
  BY <1>12, <1>t, ExecAssumption DEF ShortRead, Throws, TypeOK, Agents, Ends,
     hostVars, guestVars, linkVars
<1>13. CASE ReadTimesOut
  BY <1>13, <1>t, ExecAssumption DEF ReadTimesOut, TypeOK, Agents, Ends,
     hostVars, guestVars, linkVars
<1>14. CASE Drain
  BY <1>14, <1>t, ExecAssumption DEF Drain, TypeOK, Agents, Ends, hostVars,
     guestVars, linkVars
<1>15. CASE Stop
  BY <1>15, <1>t, ExecAssumption DEF Stop, TypeOK, Agents, Ends, hostVars,
     guestVars, linkVars
<1>16. CASE PumpFails
  BY <1>16, <1>t, ExecAssumption DEF PumpFails, TypeOK, Agents, Ends,
     hostVars, guestVars, linkVars
<1>17. CASE PumpEof
  BY <1>17, <1>t, ExecAssumption DEF PumpEof, TypeOK, Agents, Ends, hostVars,
     guestVars, linkVars
<1>18. CASE Listen
  BY <1>18, <1>t, ExecAssumption DEF Listen, Goes, TypeOK, Agents, Ends,
     hostVars, guestVars, linkVars
<1>19. CASE AgentFails
  BY <1>19, <1>t, ExecAssumption DEF AgentFails, Goes, TypeOK, Agents, Ends,
     hostVars, guestVars, linkVars
<1>20. CASE AcceptConn
  BY <1>20, <1>t, ExecAssumption DEF AcceptConn, Goes, TypeOK, Agents, Ends,
     hostVars, guestVars, linkVars
<1>21. CASE ReadCommand
  BY <1>21, <1>t, ExecAssumption DEF ReadCommand, Goes, CodeInv, TypeOK,
     Agents, Ends, hostVars, guestVars, linkVars
<1>22. CASE DropProbe
  BY <1>22, <1>t, ExecAssumption DEF DropProbe, Goes, CodeInv, TypeOK, Agents,
     Ends, hostVars, guestVars, linkVars
<1>23. CASE \E e \in Codes : ChildExits(e)
  BY <1>23, <1>t, ExecAssumption DEF ChildExits, CodeInv, TypeOK, Agents,
     Ends, hostVars, guestVars, linkVars
<1>24. CASE WriteCode
  BY <1>24, <1>t, ExecAssumption DEF WriteCode, Goes, CodeInv, TypeOK, Agents,
     Ends, hostVars, guestVars, linkVars
<1>25. CASE PowerOff
  BY <1>25, <1>t, ExecAssumption DEF PowerOff, VmGone, TypeOK, Agents, Ends,
     hostVars, guestVars, linkVars
<1>26. CASE GuestCrashes
  BY <1>26, <1>t, ExecAssumption DEF GuestCrashes, VmGone, TypeOK, Agents,
     Ends, hostVars, guestVars, linkVars
<1>27. CASE UNCHANGED vars
  BY <1>27, <1>t, ExecAssumption DEF vars, TypeOK, Agents, Ends, hostVars,
     guestVars, linkVars
<1> QED
  BY <1>1, <1>2, <1>3, <1>4, <1>5, <1>6, <1>7, <1>8, <1>9, <1>10, <1>11,
     <1>12, <1>13, <1>14, <1>15, <1>16, <1>17, <1>18, <1>19, <1>20, <1>21,
     <1>22, <1>23, <1>24, <1>25, <1>26, <1>27 DEF Next, Host, Guest

\* The exit code stays that of this session's command.
LEMMA CodeStep == ASSUME ExecInv, [Next]_vars PROVE CodeInv'
<1>t. TypeOK /\ CodeInv /\ ImageInv /\ OpInv
  BY DEF ExecInv
<1>1. CASE \E kind \in {"exec", "save", "run"}, fwd \in BOOLEAN :
             Begin(kind, fwd)
  BY <1>1, <1>t, ExecAssumption DEF Begin, Booting, TypeOK, CodeInv, Agents,
     Ends, hostVars, guestVars, linkVars
<1>2. CASE StartVm
  BY <1>2, <1>t, ExecAssumption DEF StartVm, ImageInv, OpInv, TypeOK, CodeInv,
     Agents, Ends, hostVars, guestVars, linkVars
<1>3. CASE StartFails
  BY <1>3, <1>t, ExecAssumption DEF StartFails, Throws, TypeOK, CodeInv,
     Agents, Ends, hostVars, guestVars, linkVars
<1>4. CASE Connect
  BY <1>4, <1>t, ExecAssumption DEF Connect, Listening, End, TypeOK, CodeInv,
     Agents, Ends, hostVars, guestVars, linkVars
<1>5. CASE ConnectFails
  BY <1>5, <1>t, ExecAssumption DEF ConnectFails, Listening, TypeOK, CodeInv,
     Agents, Ends, hostVars, guestVars, linkVars
<1>6. CASE CloseProbe
  BY <1>6, <1>t, ExecAssumption DEF CloseProbe, TypeOK, CodeInv, Agents, Ends,
     hostVars, guestVars, linkVars
<1>7. CASE PauseAndSave
  BY <1>7, <1>t, ExecAssumption DEF PauseAndSave, TypeOK, CodeInv, Agents,
     Ends, hostVars, guestVars, linkVars
<1>8. CASE SaveFails
  BY <1>8, <1>t, ExecAssumption DEF SaveFails, Throws, TypeOK, CodeInv,
     Agents, Ends, hostVars, guestVars, linkVars
<1>9. CASE SendCommand
  BY <1>9, <1>t, ExecAssumption DEF SendCommand, TypeOK, CodeInv, Agents,
     Ends, hostVars, guestVars, linkVars
<1>10. CASE SendFails
  BY <1>10, <1>t, ExecAssumption DEF SendFails, Throws, TypeOK, CodeInv,
     Agents, Ends, hostVars, guestVars, linkVars
<1>11. CASE ReadCode
  BY <1>11, <1>t, ExecAssumption DEF ReadCode, TypeOK, CodeInv, Agents, Ends,
     hostVars, guestVars, linkVars
<1>12. CASE ShortRead
  BY <1>12, <1>t, ExecAssumption DEF ShortRead, Throws, TypeOK, CodeInv,
     Agents, Ends, hostVars, guestVars, linkVars
<1>13. CASE ReadTimesOut
  BY <1>13, <1>t, ExecAssumption DEF ReadTimesOut, TypeOK, CodeInv, Agents,
     Ends, hostVars, guestVars, linkVars
<1>14. CASE Drain
  BY <1>14, <1>t, ExecAssumption DEF Drain, TypeOK, CodeInv, Agents, Ends,
     hostVars, guestVars, linkVars
<1>15. CASE Stop
  BY <1>15, <1>t, ExecAssumption DEF Stop, TypeOK, CodeInv, Agents, Ends,
     hostVars, guestVars, linkVars
<1>16. CASE PumpFails
  BY <1>16, <1>t, ExecAssumption DEF PumpFails, TypeOK, CodeInv, Agents, Ends,
     hostVars, guestVars, linkVars
<1>17. CASE PumpEof
  BY <1>17, <1>t, ExecAssumption DEF PumpEof, TypeOK, CodeInv, Agents, Ends,
     hostVars, guestVars, linkVars
<1>18. CASE Listen
  BY <1>18, <1>t, ExecAssumption DEF Listen, Goes, TypeOK, CodeInv, Agents,
     Ends, hostVars, guestVars, linkVars
<1>19. CASE AgentFails
  BY <1>19, <1>t, ExecAssumption DEF AgentFails, Goes, TypeOK, CodeInv,
     Agents, Ends, hostVars, guestVars, linkVars
<1>20. CASE AcceptConn
  BY <1>20, <1>t, ExecAssumption DEF AcceptConn, Goes, TypeOK, CodeInv,
     Agents, Ends, hostVars, guestVars, linkVars
<1>21. CASE ReadCommand
  BY <1>21, <1>t, ExecAssumption DEF ReadCommand, Goes, TypeOK, CodeInv,
     Agents, Ends, hostVars, guestVars, linkVars
<1>22. CASE DropProbe
  BY <1>22, <1>t, ExecAssumption DEF DropProbe, Goes, TypeOK, CodeInv, Agents,
     Ends, hostVars, guestVars, linkVars
<1>23. CASE \E e \in Codes : ChildExits(e)
  BY <1>23, <1>t, ExecAssumption DEF ChildExits, TypeOK, CodeInv, Agents,
     Ends, hostVars, guestVars, linkVars
<1>24. CASE WriteCode
  BY <1>24, <1>t, ExecAssumption DEF WriteCode, Goes, TypeOK, CodeInv, Agents,
     Ends, hostVars, guestVars, linkVars
<1>25. CASE PowerOff
  BY <1>25, <1>t, ExecAssumption DEF PowerOff, VmGone, TypeOK, CodeInv,
     Agents, Ends, hostVars, guestVars, linkVars
<1>26. CASE GuestCrashes
  BY <1>26, <1>t, ExecAssumption DEF GuestCrashes, VmGone, TypeOK, CodeInv,
     Agents, Ends, hostVars, guestVars, linkVars
<1>27. CASE UNCHANGED vars
  BY <1>27, <1>t, ExecAssumption DEF vars, TypeOK, CodeInv, Agents, Ends,
     hostVars, guestVars, linkVars
<1> QED
  BY <1>1, <1>2, <1>3, <1>4, <1>5, <1>6, <1>7, <1>8, <1>9, <1>10, <1>11,
     <1>12, <1>13, <1>14, <1>15, <1>16, <1>17, <1>18, <1>19, <1>20, <1>21,
     <1>22, <1>23, <1>24, <1>25, <1>26, <1>27 DEF Next, Host, Guest

\* No command reaches a guest that is being prepared for a save.
LEMMA SaveStep == ASSUME ExecInv, [Next]_vars PROVE SaveInv'
<1>t. TypeOK /\ CodeInv /\ SaveInv
  BY DEF ExecInv
<1>1. CASE \E kind \in {"exec", "save", "run"}, fwd \in BOOLEAN :
             Begin(kind, fwd)
  BY <1>1, <1>t, ExecAssumption DEF Begin, Booting, TypeOK, SaveInv, Agents,
     Ends, hostVars, guestVars, linkVars
<1>2. CASE StartVm
  BY <1>2, <1>t, ExecAssumption DEF StartVm, TypeOK, SaveInv, Agents, Ends,
     hostVars, guestVars, linkVars
<1>3. CASE StartFails
  BY <1>3, <1>t, ExecAssumption DEF StartFails, Throws, TypeOK, SaveInv,
     Agents, Ends, hostVars, guestVars, linkVars
<1>4. CASE Connect
  BY <1>4, <1>t, ExecAssumption DEF Connect, Listening, End, TypeOK, SaveInv,
     Agents, Ends, hostVars, guestVars, linkVars
<1>5. CASE ConnectFails
  BY <1>5, <1>t, ExecAssumption DEF ConnectFails, Listening, TypeOK, SaveInv,
     Agents, Ends, hostVars, guestVars, linkVars
<1>6. CASE CloseProbe
  BY <1>6, <1>t, ExecAssumption DEF CloseProbe, TypeOK, SaveInv, Agents, Ends,
     hostVars, guestVars, linkVars
<1>7. CASE PauseAndSave
  BY <1>7, <1>t, ExecAssumption DEF PauseAndSave, TypeOK, SaveInv, Agents,
     Ends, hostVars, guestVars, linkVars
<1>8. CASE SaveFails
  BY <1>8, <1>t, ExecAssumption DEF SaveFails, Throws, TypeOK, SaveInv,
     Agents, Ends, hostVars, guestVars, linkVars
<1>9. CASE SendCommand
  BY <1>9, <1>t, ExecAssumption DEF SendCommand, TypeOK, SaveInv, Agents,
     Ends, hostVars, guestVars, linkVars
<1>10. CASE SendFails
  BY <1>10, <1>t, ExecAssumption DEF SendFails, Throws, TypeOK, SaveInv,
     Agents, Ends, hostVars, guestVars, linkVars
<1>11. CASE ReadCode
  BY <1>11, <1>t, ExecAssumption DEF ReadCode, TypeOK, SaveInv, Agents, Ends,
     hostVars, guestVars, linkVars
<1>12. CASE ShortRead
  BY <1>12, <1>t, ExecAssumption DEF ShortRead, Throws, TypeOK, SaveInv,
     Agents, Ends, hostVars, guestVars, linkVars
<1>13. CASE ReadTimesOut
  BY <1>13, <1>t, ExecAssumption DEF ReadTimesOut, TypeOK, SaveInv, Agents,
     Ends, hostVars, guestVars, linkVars
<1>14. CASE Drain
  BY <1>14, <1>t, ExecAssumption DEF Drain, TypeOK, SaveInv, Agents, Ends,
     hostVars, guestVars, linkVars
<1>15. CASE Stop
  BY <1>15, <1>t, ExecAssumption DEF Stop, TypeOK, SaveInv, Agents, Ends,
     hostVars, guestVars, linkVars
<1>16. CASE PumpFails
  BY <1>16, <1>t, ExecAssumption DEF PumpFails, TypeOK, SaveInv, Agents, Ends,
     hostVars, guestVars, linkVars
<1>17. CASE PumpEof
  BY <1>17, <1>t, ExecAssumption DEF PumpEof, TypeOK, SaveInv, Agents, Ends,
     hostVars, guestVars, linkVars
<1>18. CASE Listen
  BY <1>18, <1>t, ExecAssumption DEF Listen, Goes, TypeOK, SaveInv, Agents,
     Ends, hostVars, guestVars, linkVars
<1>19. CASE AgentFails
  BY <1>19, <1>t, ExecAssumption DEF AgentFails, Goes, TypeOK, SaveInv,
     Agents, Ends, hostVars, guestVars, linkVars
<1>20. CASE AcceptConn
  BY <1>20, <1>t, ExecAssumption DEF AcceptConn, Goes, TypeOK, SaveInv,
     Agents, Ends, hostVars, guestVars, linkVars
<1>21. CASE ReadCommand
  BY <1>21, <1>t, ExecAssumption DEF ReadCommand, Goes, CodeInv, TypeOK,
     SaveInv, Agents, Ends, hostVars, guestVars, linkVars
<1>22. CASE DropProbe
  BY <1>22, <1>t, ExecAssumption DEF DropProbe, Goes, TypeOK, SaveInv, Agents,
     Ends, hostVars, guestVars, linkVars
<1>23. CASE \E e \in Codes : ChildExits(e)
  BY <1>23, <1>t, ExecAssumption DEF ChildExits, TypeOK, SaveInv, Agents,
     Ends, hostVars, guestVars, linkVars
<1>24. CASE WriteCode
  BY <1>24, <1>t, ExecAssumption DEF WriteCode, Goes, TypeOK, SaveInv, Agents,
     Ends, hostVars, guestVars, linkVars
<1>25. CASE PowerOff
  BY <1>25, <1>t, ExecAssumption DEF PowerOff, VmGone, TypeOK, SaveInv,
     Agents, Ends, hostVars, guestVars, linkVars
<1>26. CASE GuestCrashes
  BY <1>26, <1>t, ExecAssumption DEF GuestCrashes, VmGone, TypeOK, SaveInv,
     Agents, Ends, hostVars, guestVars, linkVars
<1>27. CASE UNCHANGED vars
  BY <1>27, <1>t, ExecAssumption DEF vars, TypeOK, SaveInv, Agents, Ends,
     hostVars, guestVars, linkVars
<1> QED
  BY <1>1, <1>2, <1>3, <1>4, <1>5, <1>6, <1>7, <1>8, <1>9, <1>10, <1>11,
     <1>12, <1>13, <1>14, <1>15, <1>16, <1>17, <1>18, <1>19, <1>20, <1>21,
     <1>22, <1>23, <1>24, <1>25, <1>26, <1>27 DEF Next, Host, Guest

\* What is saved is an agent that waits.
LEMMA ImageStep == ASSUME ExecInv, [Next]_vars PROVE ImageInv'
<1>t. TypeOK /\ CodeInv /\ SaveInv /\ ImageInv /\ OpInv
  BY DEF ExecInv
<1>1. CASE \E kind \in {"exec", "save", "run"}, fwd \in BOOLEAN :
             Begin(kind, fwd)
  BY <1>1, <1>t DEF Begin, Booting, ImageInv, hostVars, guestVars, linkVars
<1>2. CASE StartVm
  BY <1>2, <1>t DEF StartVm, ImageInv, hostVars, guestVars, linkVars
<1>3. CASE StartFails
  BY <1>3, <1>t DEF StartFails, Throws, ImageInv, hostVars, guestVars,
     linkVars
<1>4. CASE Connect
  BY <1>4, <1>t DEF Connect, Listening, End, ImageInv, hostVars, guestVars,
     linkVars
<1>5. CASE ConnectFails
  BY <1>5, <1>t DEF ConnectFails, Listening, ImageInv, hostVars, guestVars,
     linkVars
<1>6. CASE CloseProbe
  BY <1>6, <1>t DEF CloseProbe, ImageInv, hostVars, guestVars, linkVars
<1>7. CASE PauseAndSave
  BY <1>7, <1>t DEF PauseAndSave, ImageInv, OpInv, SaveInv, CodeInv, TypeOK,
     Ends, hostVars, guestVars, linkVars
<1>8. CASE SaveFails
  BY <1>8, <1>t DEF SaveFails, Throws, ImageInv, hostVars, guestVars, linkVars
<1>9. CASE SendCommand
  BY <1>9, <1>t DEF SendCommand, ImageInv, hostVars, guestVars, linkVars
<1>10. CASE SendFails
  BY <1>10, <1>t DEF SendFails, Throws, ImageInv, hostVars, guestVars,
     linkVars
<1>11. CASE ReadCode
  BY <1>11, <1>t DEF ReadCode, ImageInv, hostVars, guestVars, linkVars
<1>12. CASE ShortRead
  BY <1>12, <1>t DEF ShortRead, Throws, ImageInv, hostVars, guestVars,
     linkVars
<1>13. CASE ReadTimesOut
  BY <1>13, <1>t DEF ReadTimesOut, ImageInv, hostVars, guestVars, linkVars
<1>14. CASE Drain
  BY <1>14, <1>t DEF Drain, ImageInv, hostVars, guestVars, linkVars
<1>15. CASE Stop
  BY <1>15, <1>t DEF Stop, ImageInv, hostVars, guestVars, linkVars
<1>16. CASE PumpFails
  BY <1>16, <1>t DEF PumpFails, ImageInv, hostVars, guestVars, linkVars
<1>17. CASE PumpEof
  BY <1>17, <1>t DEF PumpEof, ImageInv, hostVars, guestVars, linkVars
<1>18. CASE Listen
  BY <1>18, <1>t DEF Listen, Goes, ImageInv, hostVars, guestVars, linkVars
<1>19. CASE AgentFails
  BY <1>19, <1>t DEF AgentFails, Goes, ImageInv, hostVars, guestVars, linkVars
<1>20. CASE AcceptConn
  BY <1>20, <1>t DEF AcceptConn, Goes, ImageInv, hostVars, guestVars, linkVars
<1>21. CASE ReadCommand
  BY <1>21, <1>t DEF ReadCommand, Goes, ImageInv, hostVars, guestVars,
     linkVars
<1>22. CASE DropProbe
  BY <1>22, <1>t DEF DropProbe, Goes, ImageInv, hostVars, guestVars, linkVars
<1>23. CASE \E e \in Codes : ChildExits(e)
  BY <1>23, <1>t DEF ChildExits, ImageInv, hostVars, guestVars, linkVars
<1>24. CASE WriteCode
  BY <1>24, <1>t DEF WriteCode, Goes, ImageInv, hostVars, guestVars, linkVars
<1>25. CASE PowerOff
  BY <1>25, <1>t DEF PowerOff, VmGone, ImageInv, hostVars, guestVars, linkVars
<1>26. CASE GuestCrashes
  BY <1>26, <1>t DEF GuestCrashes, VmGone, ImageInv, hostVars, guestVars,
     linkVars
<1>27. CASE UNCHANGED vars
  BY <1>27, <1>t DEF vars, ImageInv, hostVars, guestVars, linkVars
<1> QED
  BY <1>1, <1>2, <1>3, <1>4, <1>5, <1>6, <1>7, <1>8, <1>9, <1>10, <1>11,
     <1>12, <1>13, <1>14, <1>15, <1>16, <1>17, <1>18, <1>19, <1>20, <1>21,
     <1>22, <1>23, <1>24, <1>25, <1>26, <1>27 DEF Next, Host, Guest

\* A session follows the steps of its own operation.
LEMMA OpStep == ASSUME ExecInv, [Next]_vars PROVE OpInv'
<1>t. TypeOK /\ OpInv
  BY DEF ExecInv
<1>1. CASE \E kind \in {"exec", "save", "run"}, fwd \in BOOLEAN :
             Begin(kind, fwd)
  BY ExecAssumption, <1>1, <1>t DEF Begin, Booting, TypeOK, OpInv, hostVars,
     guestVars, linkVars
<1>2. CASE StartVm
  BY ExecAssumption, <1>2, <1>t DEF StartVm, TypeOK, OpInv, hostVars,
     guestVars, linkVars
<1>3. CASE StartFails
  BY ExecAssumption, <1>3, <1>t DEF StartFails, Throws, TypeOK, OpInv,
     hostVars, guestVars, linkVars
<1>4. CASE Connect
  BY ExecAssumption, <1>4, <1>t DEF Connect, Listening, End, TypeOK, OpInv,
     hostVars, guestVars, linkVars
<1>5. CASE ConnectFails
  BY ExecAssumption, <1>5, <1>t DEF ConnectFails, Listening, TypeOK, OpInv,
     hostVars, guestVars, linkVars
<1>6. CASE CloseProbe
  BY ExecAssumption, <1>6, <1>t DEF CloseProbe, TypeOK, OpInv, hostVars,
     guestVars, linkVars
<1>7. CASE PauseAndSave
  BY ExecAssumption, <1>7, <1>t DEF PauseAndSave, TypeOK, OpInv, hostVars,
     guestVars, linkVars
<1>8. CASE SaveFails
  BY ExecAssumption, <1>8, <1>t DEF SaveFails, Throws, TypeOK, OpInv,
     hostVars, guestVars, linkVars
<1>9. CASE SendCommand
  BY ExecAssumption, <1>9, <1>t DEF SendCommand, TypeOK, OpInv, hostVars,
     guestVars, linkVars
<1>10. CASE SendFails
  BY ExecAssumption, <1>10, <1>t DEF SendFails, Throws, TypeOK, OpInv,
     hostVars, guestVars, linkVars
<1>11. CASE ReadCode
  BY ExecAssumption, <1>11, <1>t DEF ReadCode, TypeOK, OpInv, hostVars,
     guestVars, linkVars
<1>12. CASE ShortRead
  BY ExecAssumption, <1>12, <1>t DEF ShortRead, Throws, TypeOK, OpInv,
     hostVars, guestVars, linkVars
<1>13. CASE ReadTimesOut
  BY ExecAssumption, <1>13, <1>t DEF ReadTimesOut, TypeOK, OpInv, hostVars,
     guestVars, linkVars
<1>14. CASE Drain
  BY ExecAssumption, <1>14, <1>t DEF Drain, TypeOK, OpInv, hostVars,
     guestVars, linkVars
<1>15. CASE Stop
  BY ExecAssumption, <1>15, <1>t DEF Stop, TypeOK, OpInv, hostVars, guestVars,
     linkVars
<1>16. CASE PumpFails
  BY ExecAssumption, <1>16, <1>t DEF PumpFails, TypeOK, OpInv, hostVars,
     guestVars, linkVars
<1>17. CASE PumpEof
  BY ExecAssumption, <1>17, <1>t DEF PumpEof, TypeOK, OpInv, hostVars,
     guestVars, linkVars
<1>18. CASE Listen
  BY ExecAssumption, <1>18, <1>t DEF Listen, Goes, TypeOK, OpInv, hostVars,
     guestVars, linkVars
<1>19. CASE AgentFails
  BY ExecAssumption, <1>19, <1>t DEF AgentFails, Goes, TypeOK, OpInv,
     hostVars, guestVars, linkVars
<1>20. CASE AcceptConn
  BY ExecAssumption, <1>20, <1>t DEF AcceptConn, Goes, TypeOK, OpInv,
     hostVars, guestVars, linkVars
<1>21. CASE ReadCommand
  BY ExecAssumption, <1>21, <1>t DEF ReadCommand, Goes, TypeOK, OpInv,
     hostVars, guestVars, linkVars
<1>22. CASE DropProbe
  BY ExecAssumption, <1>22, <1>t DEF DropProbe, Goes, TypeOK, OpInv, hostVars,
     guestVars, linkVars
<1>23. CASE \E e \in Codes : ChildExits(e)
  BY ExecAssumption, <1>23, <1>t DEF ChildExits, TypeOK, OpInv, hostVars,
     guestVars, linkVars
<1>24. CASE WriteCode
  BY ExecAssumption, <1>24, <1>t DEF WriteCode, Goes, TypeOK, OpInv, hostVars,
     guestVars, linkVars
<1>25. CASE PowerOff
  BY ExecAssumption, <1>25, <1>t DEF PowerOff, VmGone, TypeOK, OpInv,
     hostVars, guestVars, linkVars
<1>26. CASE GuestCrashes
  BY ExecAssumption, <1>26, <1>t DEF GuestCrashes, VmGone, TypeOK, OpInv,
     hostVars, guestVars, linkVars
<1>27. CASE UNCHANGED vars
  BY ExecAssumption, <1>27, <1>t DEF vars, TypeOK, OpInv, hostVars, guestVars,
     linkVars
<1> QED
  BY <1>1, <1>2, <1>3, <1>4, <1>5, <1>6, <1>7, <1>8, <1>9, <1>10, <1>11,
     <1>12, <1>13, <1>14, <1>15, <1>16, <1>17, <1>18, <1>19, <1>20, <1>21,
     <1>22, <1>23, <1>24, <1>25, <1>26, <1>27 DEF Next, Host, Guest

\* The inductive invariant of a session.
THEOREM Invariance == Spec => []ExecInv
<1>1. ExecInv /\ [Next]_vars => ExecInv'
  BY TypeStep, CodeStep, SaveStep, ImageStep, OpStep DEF ExecInv
<1> QED
  BY InitInv, <1>1, PTL DEF Spec

\* Types are preserved; in particular no more than MaxAttempts connections are
\* attempted.
THEOREM TypeCorrect == Spec => []TypeOK
<1>1. ExecInv => TypeOK
  BY DEF ExecInv
<1> QED
  BY <1>1, Invariance, PTL

\* A session returns the exit code of the command it sent, for any number of
\* sessions that share a saved VM.
THEOREM AnswersTrue == Spec => []AnswerTrue
<1>1. ExecInv => AnswerTrue
  BY DEF ExecInv, CodeInv, AnswerTrue
<1> QED
  BY <1>1, Invariance, PTL

\* A saved VM is one whose agent waits for its command.
THEOREM ImagesReady == Spec => []ImageReady
<1>1. ExecInv => ImageReady
  BY DEF ExecInv, ImageInv, ImageReady
<1> QED
  BY <1>1, Invariance, PTL

-----------------------------------------------------------------------------
(* The invariant, in four parts. *)

Containers == {"build", "buildtty", "create", "start", "wait", "stop", "drop",
               "free", "freed"}
OneShots == {"config", "boot", "sleep", "save", "shell", "halt"}

\* Where an invocation is goes with what it runs.
PlaceInv ==
    /\ line \in Seq(STRING)
    /\ at = "parsed" => cmd = <<>>
    /\ at = "session" => \/ cmd = <<"vz-exec">> /\ op = "exec"
                         \/ cmd = <<"vz-warm", "save">> /\ op = "save"
                         \/ cmd = <<"vz-warm", "run">> /\ op = "run"
    /\ at = "pool" => cmd \in Commands /\ cmd[1] = "pool"
    /\ at = "rootfs" => cmd = <<"rootfs">>
    /\ at \in Containers => cmd = <<"run">>
    /\ at \in OneShots =>
          cmd \in {<<"vz-boot">>, <<"vz-sh">>, <<"vz-snapshot", "save">>,
                  <<"vz-snapshot", "restore">>}
    /\ at = "save" => cmd = <<"vz-snapshot", "save">>

\* The terminal is as it was found, or its attributes are kept.
TermInv ==
    /\ tty \in {"cooked", "raw"} /\ before \in {"cooked", "raw"}
    /\ at # "idle" => IF termios = None THEN tty = before ELSE termios = before
    /\ at \in {"idle", "parsed", "session", "pool", "rootfs", "build", "buildtty",
              "freed", "config"} => termios = None
    /\ TerminalReturned

\* The sink lives from hb_vm_new to after hb_vm_free, callbacks come in between.
SinkInv ==
    /\ relay \in BOOLEAN
    /\ sink \in BOOLEAN
    /\ at \in {"create", "start", "wait", "stop", "drop", "free"} => sink
    /\ at \notin {"wait", "stop", "drop", "free"} => ~relay

\* A VM that may be saved runs under the identity of the file.
IdInv ==
    /\ DOMAIN ids = {"vm.warm", "vm.snap"}
    /\ at = "session" /\ op # "exec" => using = mid
    /\ at \in {"boot", "sleep", "save"} /\ KeepsIdentity(cmd) => using = mid
    /\ SavedUnderItsId

CliInv == PlaceInv /\ TermInv /\ SinkInv /\ IdInv /\ SuccessIsGuests

-----------------------------------------------------------------------------
(* The steps. *)

\* A step of a session is one of Exec, and of the same operation.
LEMMA SessionStepIs ==
    ASSUME SessionStep
    PROVE  /\ Next
           /\ op' = op
<1>1. \/ Host \/ PumpFails \/ PumpEof \/ Guest \/ GuestCrashes
      \/ \E c \in Codes : ChildExits(c)
  BY DEF SessionStep
<1>2. Next
  BY <1>1 DEF Next
<1> SUFFICES op' = op
  BY <1>2
<1>3. CASE Host
  BY Zenon, <1>3 DEF Host, StartVm, StartFails, Connect, ConnectFails, CloseProbe,
              PauseAndSave, SaveFails, SendCommand, SendFails, ReadCode,
              ShortRead, ReadTimesOut, Drain, Stop, Throws
<1>4. CASE Guest
  BY <1>4 DEF Guest, Listen, AgentFails, AcceptConn, ReadCommand, DropProbe,
              WriteCode, PowerOff, VmGone, hostVars
<1>5. CASE PumpFails \/ PumpEof \/ GuestCrashes
           \/ \E c \in Codes : ChildExits(c)
  BY <1>5 DEF PumpFails, PumpEof, GuestCrashes, VmGone, ChildExits, hostVars
<1> QED
  BY <1>1, <1>3, <1>4, <1>5

\* What DispatchSession begins is the session its subcommand names.
LEMMA SessionBegins ==
    ASSUME PlaceInv, DispatchSession
    PROVE  \/ /\ cmd' = <<"vz-exec">>
              /\ \E fwd \in BOOLEAN : Begin("exec", fwd)
           \/ cmd' = <<"vz-warm", "save">> /\ Begin("save", FALSE)
           \/ cmd' = <<"vz-warm", "run">> /\ Begin("run", FALSE)
<1> DEFINE c == Subcommand(line)
<1>1. /\ cmd' = c
      /\ c # <<>>
      /\ c[1] \in {"vz-exec", "vz-warm"}
      /\ IF c[1] = "vz-exec" THEN Begin("exec", Options["--stdin"] = "on")
                             ELSE Begin(c[2], FALSE)
  BY Zenon DEF DispatchSession, Accepted
<1>2. c \in Commands
  BY <1>1, SubcommandIs DEF PlaceInv
<1>3. c \in {<<"vz-exec">>, <<"vz-warm", "save">>, <<"vz-warm", "run">>}
  BY <1>1, <1>2 DEF Commands
<1> HIDE DEF c
<1>4. CASE c = <<"vz-exec">>
  <2>1. (Options["--stdin"] = "on") \in BOOLEAN
    OBVIOUS
  <2> QED
    BY Zenon, <1>1, <1>4, <2>1
<1>5. CASE c = <<"vz-warm", "save">>
  BY Zenon, <1>1, <1>5
<1>6. CASE c = <<"vz-warm", "run">>
  BY Zenon, <1>1, <1>6
<1> QED
  BY Zenon, <1>3, <1>4, <1>5, <1>6

\* What Dispatch runs is named by where it goes.
LEMMA DispatchIs ==
    ASSUME PlaceInv, Dispatch
    PROVE  \/ cmd' = <<"run">> /\ at' \in {"build", "buildtty"}
           \/ cmd' = <<"rootfs">> /\ at' = "rootfs"
           \/ /\ cmd' \in {<<"pool", "init">>, <<"pool", "run">>,
                          <<"pool", "stats">>, <<"pool", "destroy">>}
              /\ at' = "pool"
           \/ /\ cmd' \in {<<"vz-boot">>, <<"vz-sh">>, <<"vz-snapshot", "save">>,
                          <<"vz-snapshot", "restore">>}
              /\ at' = "config"
<1> DEFINE c == Subcommand(line)
<1>1. /\ cmd' = c
      /\ c # <<>>
      /\ c[1] \notin {"vz-exec", "vz-warm"}
      /\ at' = FirstStep(c)
      /\ ~Informs
  BY DEF Dispatch, Accepted
<1>2. c \in Commands
  BY <1>1, SubcommandIs DEF PlaceInv
<1>3. c # <<"ping">>
  <2>1. line # <<>> => line[1] # "ping"
    BY <1>1 DEF Informs
  <2>2. CASE Len(line) > 0 /\ line[1] \in Flat
    BY <2>1, <2>2 DEF Subcommand, PlaceInv
  <2>3. CASE ~(Len(line) > 0 /\ line[1] \in Flat)
    BY <1>1, <2>3 DEF Subcommand
  <2> QED
    BY <2>2, <2>3
<1> HIDE DEF c
<1> QED
  BY <1>1, <1>2, <1>3 DEF Commands, FirstStep

\* Where an invocation is goes on fitting what it runs.
LEMMA PlaceStep ==
    ASSUME PlaceInv, [CliNext]_allVars
    PROVE  PlaceInv'
<1> USE DEF PlaceInv, Containers, OneShots, execVars, vars, hostVars
<1>1. CASE UNCHANGED allVars
  BY <1>1 DEF allVars, cliVars
<1>2. ASSUME NEW l \in Lines \cup FirstLines, Launch(l) PROVE PlaceInv'
  BY <1>2, CliAssumption DEF Launch
<1>3. CASE DispatchSession
  <2>1. at' = "session" /\ line' = <<>>
    BY <1>3 DEF DispatchSession
  <2>2. \/ cmd' = <<"vz-exec">> /\ op' = "exec"
        \/ cmd' = <<"vz-warm", "save">> /\ op' = "save"
        \/ cmd' = <<"vz-warm", "run">> /\ op' = "run"
    <3> HIDE DEF PlaceInv
    <3> QED
      BY Zenon, <1>3, SessionBegins DEF Begin
  <2> QED
    BY <2>1, <2>2
<1>4. CASE Dispatch
  <2>1. line' = <<>>
    BY <1>4 DEF Dispatch
  <2> QED
    BY <1>4, <2>1, DispatchIs DEF Commands
<1>5. CASE SessionStep
  BY <1>5, SessionStepIs DEF SessionStep
<1>6. CASE Inform
  BY <1>6 DEF Inform, Exit
<1>7. CASE SessionReturn
  BY <1>7 DEF SessionReturn, Exit
<1>8. CASE PoolReturn
  BY <1>8 DEF PoolReturn, Exit
<1>9. CASE Rootfs
  BY Zenon, <1>9 DEF Rootfs, Exit
<1>10. CASE Build
  BY <1>10 DEF Build, Exit
<1>11. CASE Create
  BY <1>11 DEF Create
<1>12. CASE StartContainer
  BY <1>12 DEF StartContainer
<1>13. CASE StartContainerFails
  BY <1>13 DEF StartContainerFails, Reset
<1>14. CASE Wait
  BY <1>14 DEF Wait
<1>15. CASE Stopping
  BY Zenon, <1>15 DEF Stopping, StopContainer, Reset
<1>16. CASE FreeHandle
  BY <1>16 DEF FreeHandle, Reset
<1>17. CASE FreeSink
  BY <1>17 DEF FreeSink, Exit
<1>18. CASE Configure
  BY <1>18 DEF Configure
<1>19. CASE ConfigureFails
  BY <1>19 DEF ConfigureFails, Exit
<1>20. CASE BootVm
  BY <1>20 DEF BootVm
<1>21. CASE BootFails
  BY <1>21 DEF BootFails, Leave, Exit, Reset
<1>22. CASE Sleep
  BY <1>22 DEF Sleep
<1>23. CASE SaveState
  BY <1>23 DEF SaveState
<1>24. CASE SaveStateFails
  BY <1>24 DEF SaveStateFails, Leave, Exit, Reset
<1>25. CASE ShellWait
  BY <1>25 DEF ShellWait
<1>26. CASE Halt
  BY <1>26 DEF Halt, Leave, Exit, Reset
<1>27. CASE ShellEnds
  BY <1>27 DEF ShellEnds
<1>28. CASE Killed
  BY <1>28 DEF Killed
<1> QED
  BY Zenon, <1>1, <1>2, <1>3, <1>4, <1>5, <1>6, <1>7, <1>8, <1>9, <1>10, <1>11,
     <1>12, <1>13, <1>14, <1>15, <1>16, <1>17, <1>18, <1>19, <1>20, <1>21,
     <1>22, <1>23, <1>24, <1>25, <1>26, <1>27, <1>28
     DEF CliNext, OneShot

\* The terminal is as it was found or its attributes are kept.
LEMMA TermStep ==
    ASSUME PlaceInv, TermInv, [CliNext]_allVars
    PROVE  TermInv'
<1> USE DEF TermInv, TerminalReturned, termVars
<1> USE CliAssumption
<1>1. CASE UNCHANGED allVars
  BY <1>1 DEF allVars, cliVars
<1>2. ASSUME NEW l \in Lines \cup FirstLines, Launch(l) PROVE TermInv'
  BY <1>2 DEF Launch
<1>3. CASE DispatchSession
  BY <1>3 DEF DispatchSession
<1>4. CASE Dispatch
  <2>1. at' \in {"build", "buildtty", "rootfs", "pool", "config"}
    BY <1>4, DispatchIs
  <2>2. at = "parsed" /\ UNCHANGED <<status, termVars>>
    BY <1>4 DEF Dispatch
  <2> QED
    BY <2>1, <2>2
<1>5. CASE SessionStep
  BY <1>5 DEF SessionStep
<1>6. CASE Inform
  BY <1>6 DEF Inform, Exit
<1>7. CASE SessionReturn
  BY <1>7 DEF SessionReturn, Exit
<1>8. CASE PoolReturn
  BY <1>8 DEF PoolReturn, Exit
<1>9. CASE Rootfs
  BY <1>9 DEF Rootfs, Exit
<1>10. CASE Build
  BY <1>10 DEF Build, Exit
<1>11. CASE Create
  BY <1>11 DEF Create
<1>12. CASE StartContainer
  BY <1>12 DEF StartContainer
<1>13. CASE StartContainerFails
  BY <1>13 DEF StartContainerFails, Reset
<1>14. CASE Wait
  BY <1>14 DEF Wait
<1>15. CASE Stopping
  BY Zenon, <1>15 DEF Stopping, StopContainer, Reset
<1>16. CASE FreeHandle
  BY <1>16 DEF FreeHandle, Reset
<1>17. CASE FreeSink
  BY <1>17 DEF FreeSink, Exit
<1>18. CASE Configure
  BY <1>18 DEF Configure
<1>19. CASE ConfigureFails
  BY <1>19 DEF ConfigureFails, Exit
<1>20. CASE BootVm
  BY <1>20 DEF BootVm
<1>21. CASE BootFails
  BY <1>21 DEF BootFails, Leave, Exit, Reset
<1>22. CASE Sleep
  BY <1>22 DEF Sleep
<1>23. CASE SaveState
  BY Zenon, <1>23 DEF SaveState
<1>24. CASE SaveStateFails
  BY <1>24 DEF SaveStateFails, Leave, Exit, Reset
<1>25. CASE ShellWait
  BY <1>25 DEF ShellWait
<1>26. CASE Halt
  BY <1>26 DEF Halt, Leave, Exit, Reset
<1>27. CASE ShellEnds
  BY <1>27 DEF ShellEnds
<1>28. CASE Killed
  BY <1>28 DEF Killed
<1> QED
  BY Zenon, <1>1, <1>2, <1>3, <1>4, <1>5, <1>6, <1>7, <1>8, <1>9, <1>10, <1>11,
     <1>12, <1>13, <1>14, <1>15, <1>16, <1>17, <1>18, <1>19, <1>20, <1>21,
     <1>22, <1>23, <1>24, <1>25, <1>26, <1>27, <1>28
     DEF CliNext, OneShot

\* Callbacks come only while the sink exists.
LEMMA SinkStep ==
    ASSUME PlaceInv, SinkInv, [CliNext]_allVars
    PROVE  SinkInv'
<1> USE DEF SinkInv, ctVars
<1>1. CASE UNCHANGED allVars
  BY <1>1 DEF allVars, cliVars
<1>2. ASSUME NEW l \in Lines \cup FirstLines, Launch(l) PROVE SinkInv'
  BY <1>2 DEF Launch
<1>3. CASE DispatchSession
  BY <1>3 DEF DispatchSession
<1>4. CASE Dispatch
  <2>1. at' \in {"build", "buildtty", "rootfs", "pool", "config"}
    BY <1>4, DispatchIs
  <2>2. at = "parsed" /\ UNCHANGED ctVars
    BY <1>4 DEF Dispatch
  <2> QED
    BY <2>1, <2>2
<1>5. CASE SessionStep
  BY <1>5 DEF SessionStep
<1>6. CASE Inform
  BY <1>6 DEF Inform, Exit
<1>7. CASE SessionReturn
  BY <1>7 DEF SessionReturn, Exit
<1>8. CASE PoolReturn
  BY <1>8 DEF PoolReturn, Exit
<1>9. CASE Rootfs
  BY Zenon, <1>9 DEF Rootfs, Exit
<1>10. CASE Build
  BY Zenon, <1>10 DEF Build, Exit
<1>11. CASE Create
  BY <1>11 DEF Create
<1>12. CASE StartContainer
  BY <1>12 DEF StartContainer
<1>13. CASE StartContainerFails
  BY Zenon, <1>13 DEF StartContainerFails, Reset
<1>14. CASE Wait
  BY <1>14 DEF Wait
<1>15. CASE Stopping
  BY Zenon, <1>15 DEF Stopping, StopContainer, Reset
<1>16. CASE FreeHandle
  BY Zenon, <1>16 DEF FreeHandle, Reset
<1>17. CASE FreeSink
  BY Zenon, <1>17 DEF FreeSink, Exit
<1>18. CASE Configure
  BY <1>18 DEF Configure
<1>19. CASE ConfigureFails
  BY <1>19 DEF ConfigureFails, Exit
<1>20. CASE BootVm
  BY <1>20 DEF BootVm
<1>21. CASE BootFails
  BY <1>21 DEF BootFails, Leave, Exit, Reset
<1>22. CASE Sleep
  BY <1>22 DEF Sleep
<1>23. CASE SaveState
  BY <1>23 DEF SaveState
<1>24. CASE SaveStateFails
  BY <1>24 DEF SaveStateFails, Leave, Exit, Reset
<1>25. CASE ShellWait
  BY <1>25 DEF ShellWait
<1>26. CASE Halt
  BY <1>26 DEF Halt, Leave, Exit, Reset
<1>27. CASE ShellEnds
  BY <1>27 DEF ShellEnds
<1>28. CASE Killed
  BY Zenon, <1>28 DEF Killed
<1> QED
  BY Zenon, <1>1, <1>2, <1>3, <1>4, <1>5, <1>6, <1>7, <1>8, <1>9, <1>10, <1>11,
     <1>12, <1>13, <1>14, <1>15, <1>16, <1>17, <1>18, <1>19, <1>20, <1>21,
     <1>22, <1>23, <1>24, <1>25, <1>26, <1>27, <1>28
     DEF CliNext, OneShot

\* Taking an identity changes the file only if no state was saved under it.
LEMMA IdentityKept ==
    ASSUME SavedUnderItsId, NEW c, mid' \in {mid, Identity(c)}, ids' = ids
    PROVE  SavedUnderItsId'
BY DEF SavedUnderItsId, Identity

\* A state that is saved is saved under the identity of the file.
LEMMA IdStep ==
    ASSUME ExecInv, PlaceInv, IdInv, [CliNext]_allVars
    PROVE  IdInv'
<1> USE DEF IdInv, idVars
<1>1. CASE UNCHANGED allVars
  BY <1>1 DEF allVars, cliVars, execVars, vars, hostVars, SavedUnderItsId
<1>2. ASSUME NEW l \in Lines \cup FirstLines, Launch(l) PROVE IdInv'
  BY <1>2 DEF Launch, SavedUnderItsId
<1>3. CASE DispatchSession
  <2>1. \/ cmd' = <<"vz-exec">> /\ op' = "exec"
        \/ cmd' \in {<<"vz-warm", "save">>, <<"vz-warm", "run">>}
    BY Zenon, <1>3, SessionBegins DEF Begin
  <2>2. /\ at' = "session"
        /\ ids' = ids
        /\ IF KeepsIdentity(cmd')
           THEN mid' = Identity(cmd') /\ using' = Identity(cmd')
           ELSE UNCHANGED <<mid, using>>
    BY <1>3 DEF DispatchSession
  <2>3. SavedUnderItsId'
    BY <2>2, IdentityKept
  <2> QED
    BY <2>1, <2>2, <2>3 DEF KeepsIdentity
<1>4. CASE Dispatch
  <2>1. at' \notin {"session", "boot", "sleep", "save"}
    BY <1>4, DispatchIs
  <2>2. UNCHANGED idVars
    BY <1>4 DEF Dispatch
  <2> QED
    BY <2>1, <2>2 DEF SavedUnderItsId
<1>5. CASE SessionStep
  <2>1. /\ at = "session" /\ at' = "session"
        /\ UNCHANGED <<mid, using>>
        /\ \/ ids' = ids
           \/ host = "save" /\ ids' = [ids EXCEPT !["vm.warm"] = using]
    BY <1>5 DEF SessionStep
  <2>2. op' = op
    BY <1>5, SessionStepIs
  <2>3. host = "save" => op = "save"
    BY DEF ExecInv, OpInv
  <2>4. SavedUnderItsId'
    BY <2>1, <2>3 DEF SavedUnderItsId
  <2> QED
    BY <2>1, <2>2, <2>4
<1>6. CASE Inform
  BY <1>6 DEF Inform, Exit, SavedUnderItsId
<1>7. CASE SessionReturn
  BY <1>7 DEF SessionReturn, Exit, SavedUnderItsId
<1>8. CASE PoolReturn
  BY <1>8 DEF PoolReturn, Exit, SavedUnderItsId
<1>9. CASE Rootfs
  BY Zenon, <1>9 DEF Rootfs, Exit, SavedUnderItsId
<1>10. CASE Build
  BY <1>10 DEF Build, Exit, SavedUnderItsId
<1>11. CASE Create
  BY <1>11 DEF Create, SavedUnderItsId
<1>12. CASE StartContainer
  BY <1>12 DEF StartContainer, SavedUnderItsId
<1>13. CASE StartContainerFails
  BY <1>13 DEF StartContainerFails, Reset, SavedUnderItsId
<1>14. CASE Wait
  BY <1>14 DEF Wait, SavedUnderItsId
<1>15. CASE Stopping
  BY Zenon, <1>15 DEF Stopping, StopContainer, Reset, SavedUnderItsId
<1>16. CASE FreeHandle
  BY <1>16 DEF FreeHandle, Reset, SavedUnderItsId
<1>17. CASE FreeSink
  BY <1>17 DEF FreeSink, Exit, SavedUnderItsId
<1>18. CASE Configure
  <2>1. /\ at' = "boot"
        /\ UNCHANGED <<cmd, ids>>
        /\ IF KeepsIdentity(cmd)
           THEN mid' = Identity(cmd) /\ using' = Identity(cmd)
           ELSE UNCHANGED <<mid, using>>
    BY <1>18 DEF Configure
  <2>2. SavedUnderItsId'
    BY <2>1, IdentityKept
  <2> QED
    BY <2>1, <2>2 DEF KeepsIdentity
<1>19. CASE ConfigureFails
  <2>1. at' = "idle" /\ ids' = ids /\ mid' \in {mid, Identity(cmd)}
    BY <1>19 DEF ConfigureFails, Exit
  <2>2. SavedUnderItsId'
    BY <2>1, IdentityKept
  <2> QED
    BY <2>1, <2>2
<1>20. CASE BootVm
  BY <1>20 DEF BootVm, KeepsIdentity, SavedUnderItsId
<1>21. CASE BootFails
  BY <1>21 DEF BootFails, Leave, Exit, Reset, SavedUnderItsId
<1>22. CASE Sleep
  BY <1>22 DEF Sleep, KeepsIdentity, SavedUnderItsId
<1>23. CASE SaveState
  <2>1. KeepsIdentity(cmd)
    BY <1>23 DEF SaveState, PlaceInv, KeepsIdentity
  <2> QED
    BY <1>23, <2>1 DEF SaveState, SavedUnderItsId, KeepsIdentity
<1>24. CASE SaveStateFails
  BY <1>24 DEF SaveStateFails, Leave, Exit, Reset, SavedUnderItsId
<1>25. CASE ShellWait
  BY <1>25 DEF ShellWait, SavedUnderItsId
<1>26. CASE Halt
  BY <1>26 DEF Halt, Leave, Exit, Reset, SavedUnderItsId
<1>27. CASE ShellEnds
  BY <1>27 DEF ShellEnds, SavedUnderItsId
<1>28. CASE Killed
  <2>1. at' = "idle"
    BY <1>28 DEF Killed
  <2>2. DOMAIN ids' = {"vm.warm", "vm.snap"}
    BY <1>28 DEF Killed
  <2>3. SavedUnderItsId'
    BY <1>28 DEF Killed, SavedUnderItsId
  <2> QED
    BY <2>1, <2>2, <2>3
<1> QED
  BY Zenon, <1>1, <1>2, <1>3, <1>4, <1>5, <1>6, <1>7, <1>8, <1>9, <1>10, <1>11,
     <1>12, <1>13, <1>14, <1>15, <1>16, <1>17, <1>18, <1>19, <1>20, <1>21,
     <1>22, <1>23, <1>24, <1>25, <1>26, <1>27, <1>28
     DEF CliNext, OneShot

\* Status 0 comes from the guest.
LEMMA SuccessStep ==
    ASSUME ExecInv, PlaceInv, SuccessIsGuests, [CliNext]_allVars
    PROVE  SuccessIsGuests'
<1>a. at' # "idle" => SuccessIsGuests'
  BY DEF SuccessIsGuests
<1>q. status' # 0 => SuccessIsGuests'
  BY DEF SuccessIsGuests
<1>1. CASE UNCHANGED allVars
  BY <1>1 DEF SuccessIsGuests, allVars, cliVars, execVars, vars, hostVars, guestVars, ctVars
<1>2. ASSUME NEW l \in Lines \cup FirstLines, Launch(l) PROVE SuccessIsGuests'
  <2>1. at' = "parsed"
    BY <1>2 DEF Launch
  <2> QED
    BY <2>1, <1>a
<1>3. CASE DispatchSession
  <2>1. at' = "session"
    BY <1>3 DEF DispatchSession
  <2> QED
    BY <2>1, <1>a
<1>4. CASE Dispatch
  <2>1. at' # "idle"
    BY <1>4, DispatchIs
  <2> QED
    BY <2>1, <1>a
<1>5. CASE SessionStep
  <2>1. at' # "idle"
    BY <1>5 DEF SessionStep
  <2> QED
    BY <2>1, <1>a
<1>6. CASE Inform
  <2>1. cmd' = <<>>
    BY <1>6 DEF Inform, Exit, PlaceInv
  <2> QED
    BY <2>1 DEF SuccessIsGuests
<1>7. CASE SessionReturn
  <2>1. /\ at = "session" /\ cmd' = cmd
        /\ UNCHANGED <<child, session>>
        /\ status' = CASE outcome # "ok" -> 1
                       [] outcome = "ok" /\ op = "save" -> 0
                       [] OTHER -> ToStatus(answer)
    BY <1>7 DEF SessionReturn, Exit, execVars, vars, hostVars, guestVars
  <2>2. CASE cmd \in {<<"vz-exec">>, <<"vz-warm", "run">>}
    <3>1. op # "save"
      BY <2>1, <2>2 DEF PlaceInv
    <3>2. status' = 0 => answer = 0
      BY <2>1, <3>1 DEF ToStatus
    <3>3. answer = 0 => child = [cmd |-> session, exit |-> 0]
      BY CliAssumption DEF ExecInv, CodeInv
    <3> QED
      BY <2>1, <2>2, <3>2, <3>3 DEF SuccessIsGuests
  <2>3. CASE cmd = <<"vz-warm", "save">>
    BY <2>1, <2>3 DEF SuccessIsGuests
  <2> QED
    BY <2>1, <2>2, <2>3 DEF PlaceInv
<1>8. CASE PoolReturn
  <2>1. cmd' = cmd /\ cmd \in Commands /\ cmd[1] = "pool"
    BY <1>8 DEF PoolReturn, PlaceInv
  <2>2. cmd = <<"pool", "run">> /\ status' = 0 => code' = 0
    BY <1>8 DEF PoolReturn, Exit, ToStatus
  <2> QED
    BY <2>1, <2>2 DEF Commands, SuccessIsGuests
<1>9. CASE Rootfs
  <2>1. cmd' = <<"rootfs">>
    BY <1>9 DEF Rootfs, Exit, PlaceInv
  <2> QED
    BY <2>1 DEF SuccessIsGuests
<1>10. CASE Build
  <2>1. at' = "create" \/ status' = 1
    BY <1>10 DEF Build, Exit
  <2> QED
    BY <2>1, <1>a, <1>q
<1>11. CASE Create
  <2>1. at' # "idle"
    BY <1>11 DEF Create
  <2> QED
    BY <2>1, <1>a
<1>12. CASE StartContainer
  <2>1. at' # "idle"
    BY <1>12 DEF StartContainer
  <2> QED
    BY <2>1, <1>a
<1>13. CASE StartContainerFails
  <2>1. at' # "idle"
    BY <1>13 DEF StartContainerFails
  <2> QED
    BY <2>1, <1>a
<1>14. CASE Wait
  <2>1. at' # "idle"
    BY <1>14 DEF Wait
  <2> QED
    BY <2>1, <1>a
<1>15. CASE Stopping
  <2>1. at' # "idle"
    BY Zenon, <1>15 DEF Stopping, StopContainer
  <2> QED
    BY <2>1, <1>a
<1>16. CASE FreeHandle
  <2>1. at' # "idle"
    BY <1>16 DEF FreeHandle
  <2> QED
    BY <2>1, <1>a
<1>17. CASE FreeSink
  <2>1. cmd' = <<"run">> /\ code' = code
    BY <1>17 DEF FreeSink, PlaceInv, Containers
  <2>2. status' = 0 => code = 0
    BY <1>17 DEF FreeSink, Exit, ToStatus
  <2> QED
    BY <2>1, <2>2 DEF SuccessIsGuests
<1>18. CASE Configure
  <2>1. at' # "idle"
    BY <1>18 DEF Configure
  <2> QED
    BY <2>1, <1>a
<1>19. CASE ConfigureFails
  <2>1. status' = 1
    BY <1>19 DEF ConfigureFails, Exit
  <2> QED
    BY <2>1, <1>q
<1>20. CASE BootVm
  <2>1. at' # "idle"
    BY <1>20 DEF BootVm
  <2> QED
    BY <2>1, <1>a
<1>21. CASE BootFails
  <2>1. status' = 1
    BY <1>21 DEF BootFails, Leave, Exit
  <2> QED
    BY <2>1, <1>q
<1>22. CASE Sleep
  <2>1. at' # "idle"
    BY <1>22 DEF Sleep
  <2> QED
    BY <2>1, <1>a
<1>23. CASE SaveState
  <2>1. at' # "idle"
    BY <1>23 DEF SaveState
  <2> QED
    BY <2>1, <1>a
<1>24. CASE SaveStateFails
  <2>1. status' = 1
    BY <1>24 DEF SaveStateFails, Leave, Exit
  <2> QED
    BY <2>1, <1>q
<1>25. CASE ShellWait
  <2>1. at' # "idle"
    BY <1>25 DEF ShellWait
  <2> QED
    BY <2>1, <1>a
<1>26. CASE Halt
  <2>1. at = "halt" /\ cmd' = cmd
    BY <1>26 DEF Halt, Leave
  <2>2. cmd \in {<<"vz-boot">>, <<"vz-sh">>, <<"vz-snapshot", "save">>,
                 <<"vz-snapshot", "restore">>}
    BY <2>1 DEF PlaceInv, OneShots
  <2> QED
    BY <2>1, <2>2 DEF SuccessIsGuests
<1>27. CASE ShellEnds
  <2>1. at' # "idle"
    BY <1>27 DEF ShellEnds
  <2> QED
    BY <2>1, <1>a
<1>28. CASE Killed
  <2>1. status' = None
    BY <1>28 DEF Killed
  <2> QED
    BY <2>1, <1>q, CliAssumption
<1> QED
  BY Zenon, <1>1, <1>2, <1>3, <1>4, <1>5, <1>6, <1>7, <1>8, <1>9, <1>10, <1>11,
     <1>12, <1>13, <1>14, <1>15, <1>16, <1>17, <1>18, <1>19, <1>20, <1>21,
     <1>22, <1>23, <1>24, <1>25, <1>26, <1>27, <1>28
     DEF CliNext, OneShot

\* A step of an invocation is a step of its session or leaves the session alone.
LEMMA ExecStep == PlaceInv /\ [CliNext]_allVars => [Next]_vars
<1> SUFFICES ASSUME PlaceInv, [CliNext]_allVars PROVE [Next]_vars
  OBVIOUS
<1>1. CASE DispatchSession
  <2>1. \E kind \in {"exec", "save", "run"}, fwd \in BOOLEAN : Begin(kind, fwd)
    BY Zenon, <1>1, SessionBegins
  <2> QED
    BY <2>1 DEF Next
<1>2. CASE SessionStep
  BY <1>2, SessionStepIs
<1>3. CASE \/ (\E l \in Lines \cup FirstLines : Launch(l)) \/ Inform \/ Dispatch
           \/ SessionReturn \/ PoolReturn \/ Rootfs \/ UNCHANGED allVars
  BY Zenon, <1>3 DEF Launch, Inform, Dispatch, SessionReturn, PoolReturn, Rootfs,
              allVars, execVars
<1>4. CASE \/ Build \/ Create \/ StartContainer \/ StartContainerFails \/ Wait
           \/ Stopping \/ FreeHandle \/ FreeSink
  BY Zenon, <1>4 DEF Build, Create, StartContainer, StartContainerFails, Wait, Stopping,
              StopContainer, FreeHandle, FreeSink, execVars
<1>5. CASE OneShot \/ ShellEnds \/ Killed
  BY Zenon, <1>5 DEF OneShot, Configure, ConfigureFails, BootVm, BootFails, Sleep,
              SaveState, SaveStateFails, ShellWait, Halt, Leave, ShellEnds,
              Killed, execVars
<1> QED
  BY <1>1, <1>2, <1>3, <1>4, <1>5 DEF CliNext

\* Before the first invocation the invariant holds.
LEMMA CliInitial == CliInit => Init /\ CliInv
<1> SUFFICES ASSUME CliInit PROVE Init /\ CliInv
  OBVIOUS
<1>1. PlaceInv
  BY DEF CliInit, PlaceInv, Containers, OneShots
<1>2. TermInv
  BY DEF CliInit, TermInv, TerminalReturned
<1>3. SinkInv
  BY Zenon DEF CliInit, SinkInv
<1>4. IdInv
  BY DEF CliInit, IdInv, SavedUnderItsId
<1>5. SuccessIsGuests
  BY Zenon, CliAssumption DEF CliInit, SuccessIsGuests
<1> QED
  BY <1>1, <1>2, <1>3, <1>4, <1>5 DEF CliInit, CliInv

-----------------------------------------------------------------------------
\* Where an invocation is goes with what it runs, always.
LEMMA Placed == CliSpec => []PlaceInv
<1>1. CliInit => PlaceInv
  BY CliInitial DEF CliInv
<1>2. PlaceInv /\ [CliNext]_allVars => PlaceInv'
  BY PlaceStep
<1> QED
  BY <1>1, <1>2, PTL DEF CliSpec

\* The sessions that the invocations of vz-exec and vz-warm make, one after the
\* other and among invocations of the other subcommands, are sessions of Exec:
\* what is proved of Exec holds of the command.
THEOREM CliImplementsExec == CliSpec => Spec
<1>1. CliInit => Init
  BY CliInitial
<1> QED
  BY <1>1, ExecStep, Placed, PTL DEF CliSpec, Spec

\* The invariant of the command, together with that of its sessions.
THEOREM CliInvariance == CliSpec => [](ExecInv /\ CliInv)
<1>1. ExecInv /\ CliInv /\ [CliNext]_allVars => CliInv'
  BY PlaceStep, TermStep, SinkStep, IdStep, SuccessStep DEF CliInv
<1>2. CliInit => CliInv
  BY CliInitial
<1>3. CliSpec => []ExecInv
  BY CliImplementsExec, Invariance, PTL
<1> QED
  BY <1>1, <1>2, <1>3, PTL DEF CliSpec

\* Whichever step of run or vz-sh fails, an invocation that returns leaves the
\* terminal as it found it (tryReset in hb_vm_stop, VmHandle.deinit and the
\* defer of hb_vz_sh).
THEOREM TerminalComesBack == CliSpec => []TerminalReturned
<1>1. CliInv => TerminalReturned
  BY DEF CliInv, TermInv
<1> QED
  BY <1>1, CliInvariance, PTL

\* A container never calls back into a StdioState that has been freed: the
\* fields of Vm are dropped after hb_vm_free has returned.
THEOREM CallbacksHaveSink == CliSpec => []CallbackHasSink
<1>1. CliInv => CallbackHasSink
  BY DEF CliInv, SinkInv, CallbackHasSink
<1> QED
  BY <1>1, CliInvariance, PTL

\* Every state on disk was saved under the identity in the machineid file it
\* shares, across failures and kills (buildConfig, makeSnapshotable).
THEOREM StatesRestorable == CliSpec => []SavedUnderItsId
<1>1. CliInv => SavedUnderItsId
  BY DEF CliInv, IdInv
<1> QED
  BY <1>1, CliInvariance, PTL

\* Exit status 0 of a command that runs something in a guest is the guest's.
THEOREM SuccessComesFromGuest == CliSpec => []SuccessIsGuests
<1>1. CliInv => SuccessIsGuests
  BY DEF CliInv
<1> QED
  BY <1>1, CliInvariance, PTL

\* The exit code that an invocation of vz-exec or vz-warm run passes on is that
\* of the command it sent, and a state it saves can take a command.
THEOREM SessionsTrue == CliSpec => [](AnswerTrue /\ ImageReady)
BY CliImplementsExec, AnswersTrue, ImagesReady, PTL

\* Every line of every invocation is read as it is written, however long it is
\* and whatever its tokens (the parsers of main.rs and help_text).
THEOREM LinesReadAsWritten == CliSpec => []ReadAsWritten
<1>1. ASSUME PlaceInv PROVE ReadAsWritten
  <2>1. PICK l \in Seq(STRING) : l = line
    BY <1>1 DEF PlaceInv
  <2> QED
    BY Zenon, <2>1, LineRead DEF ReadAsWritten
<1> QED
  BY <1>1, Placed, PTL
=============================================================================
