----------------------------- MODULE MCCommands -----------------------------
(***************************************************************************)
(* The chain of commands for TLC: an application that starts a started     *)
(* session again (RtmpSession, under EagerSpec), or what the two ends of   *)
(* the connection say (CommandStream).  A behaviour is about the one or    *)
(* the other, which have no state in common.                               *)
(***************************************************************************)
EXTENDS RtmpSession

CONSTANTS Scenes, Speakers, DefaultSize, ServerSizes, Windows, MediaSizes, MaxSessions, MaxMessages

VARIABLES
  scene,                                             \* "threads" or "commands"
  chunkSize, window, up, down, server, meant, taken, \* as in CommandStream
  speaker, sessions, place, sent, heard              \* its role, sessions, at, sent and heard

commands ==
  <<chunkSize, window, up, down, server, meant, taken, speaker, sessions, place, sent, heard>>

C == INSTANCE CommandStream
       WITH Roles <- Speakers, MaxMedia <- MaxMessages, role <- speaker, at <- place

ASSUME ScenesAssumption == Scenes \subseteq {"threads", "commands"}
ASSUME CommandsAssumption == C!ConstantsOK

Thread(A)  == scene = "threads" /\ A /\ UNCHANGED <<scene, commands>>
Command(A) == scene = "commands" /\ A /\ UNCHANGED <<scene, vars>>

\* every action of CommandStream by itself, and behaviours that have met its bounds
NextScene ==
  \/ Thread(Next) \/ Thread(StartAgain)
  \/ Command(C!start) \/ Command(C!end) \/ Command(C!Lost) \/ Command(C!ServerReads)
  \/ Command(C!sendSetChunkSize) \/ Command(C!sendConnectCommandMessage)
  \/ Command(C!receiveWindowAcknowledgeSize) \/ Command(C!receiveSetPeerBandWidth)
  \/ Command(C!sendWindowAcknowledgeSize) \/ Command(C!receiveSetChunkSize)
  \/ Command(C!receiveConnectionCommandResponse)
  \/ Command(C!sendCreateStreamCommand) \/ Command(C!receiveCreateStreamCommandResponse)
  \/ Command(C!sendPublishCommand) \/ Command(C!sendPlayCommandMessage)
  \/ Command(C!receiveStreamBeginMessage) \/ Command(C!receiveOnStatusCommandResponse)
  \/ Command(C!receiveRtmpSampleAccessMessage)
  \/ Command(C!sendOnMetaDataMessage) \/ Command(C!sendMediaMessage)
  \/ Command(UNCHANGED commands)

InitScene ==
  /\ scene \in Scenes /\ Init /\ C!Init
  /\ scene = "threads" => speaker = "watcher"

\* EagerSpec, in the one scene
SpecScene == InitScene /\ [][NextScene]_<<scene, vars, commands>> /\ Fairness

\* What goes over a connection before a session is live: the server hears what the client
\* said, the client takes the answers for what they are, and a live session is the one that
\* the application asked for.
CommandsAreUnderstood == C!ServerHearsTheClient /\ C!AnswersAreUnderstood /\ C!LiveIsAgreed
=============================================================================
