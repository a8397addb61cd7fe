-------------------------- MODULE CommandNumbersProofs --------------------------
(***************************************************************************)
(* Theorems about the translation of events, for every range of numbers    *)
(* SDL hands out and every number of commands published.                   *)
(*                                                                         *)
(* One fact carries them all: the globals of event.c are a function of the *)
(* number of commands published, CodecAfter(n).                            *)
(***************************************************************************)
EXTENDS CommandNumbers, TLAPS

USE CodecAssumption DEF OX_CMD_SYSTEM_MAX, SDL_EVENT_KEY_UP

SentOK == sent \in [event : Outgoing \cup {NoEvent}, sdl : Nat]

\* A command takes the globals from one number to the next, and the block it
\* gets lies above the one before.
LEMMA NextCommand ==
  ASSUME NEW n \in Nat, CodecAfter(n), get_cmd_event_type
  PROVE  CodecAfter(n + 1)' /\ NextBlockAbove
<1> DEFINE first == SDL_RegisterEvents(OX_CMD_SYSTEM_MAX)
<1>1. first = IF SDL_EVENT_USER + 7 * n + 6 <= SDL_EVENT_LAST
              THEN SDL_EVENT_USER + 7 * n ELSE 0
  BY DEF CodecAfter, SDL_RegisterEvents
<1> HIDE DEF first
<1>2. /\ cmd_event_type_first' = first
      /\ cmd_event_type_last' = 6 * n - 1 + 7 - 1
      /\ sdl_userevents' = 7 * n + 7
  BY DEF CodecAfter, get_cmd_event_type, first
<1>3. CodecAfter(n + 1)'
  BY <1>1, <1>2 DEF CodecAfter
<1>4. NextBlockAbove
  BY <1>1, <1>2 DEF CodecAfter, NextBlockAbove, BlockLeft
<1> QED
  BY <1>3, <1>4

LEMMA EveryStep ==
  ASSUME NEW n \in Nat, CodecAfter(n), SentOK, [Next]_vars
  PROVE  /\ SentOK' /\ NextBlockAbove
         /\ CodecAfter(n)' \/ CodecAfter(n + 1)'
<1>1. CASE UNCHANGED vars
  BY <1>1 DEF vars, CodecAfter, NextBlockAbove, SentOK, Outgoing, NoEvent
<1>2. ASSUME NEW e \in Outgoing, Publish(e)
      PROVE  /\ SentOK' /\ NextBlockAbove
             /\ CodecAfter(n)' \/ CodecAfter(n + 1)'
  <2>1. e.code \in Nat /\ e.type \in {OX_EVENT_QUIT, OX_EVENT_COMMAND}
    BY DEF Outgoing, Event, OX_CMD_NONE
  <2>2. sdl_userevents \in Nat
    BY DEF CodecAfter
  <2>3. ToSdl(e) \in Nat
    BY <2>1, <2>2 DEF ToSdl, CommandNumber, SDL_EVENT_QUIT, SDL_RegisterEvents
  <2>4. SentOK'
    BY <1>2, <2>3 DEF Publish, SentOK, Outgoing, NoEvent
  <2>5. CASE UNCHANGED codecVars
    BY <2>4, <2>5 DEF codecVars, CodecAfter, NextBlockAbove
  <2>6. CASE get_cmd_event_type
    BY <2>4, <2>6, NextCommand
  <2> QED
    BY <1>2, <2>5, <2>6 DEF Publish, oxi_to_sdl_event
<1> QED
  BY <1>1, <1>2 DEF Next

Counted == SentOK /\ \E n \in Nat : CodecAfter(n)

LEMMA CountedInvariant == Spec => []Counted
<1>1. Init => Counted
  <2> SUFFICES ASSUME Init PROVE Counted
    OBVIOUS
  <2>1. CodecAfter(0)
    BY DEF Init, CodecInit, CodecAfter
  <2>2. SentOK
    BY DEF Init, SentOK
  <2> QED
    BY <2>1, <2>2 DEF Counted
<1>2. Counted /\ [Next]_vars => Counted'
  <2> SUFFICES ASSUME SentOK, NEW n \in Nat, CodecAfter(n), [Next]_vars PROVE Counted'
    BY DEF Counted
  <2>1. n + 1 \in Nat
    OBVIOUS
  <2> QED
    BY <2>1, EveryStep DEF Counted
<1> QED
  BY <1>1, <1>2, PTL DEF Spec

-------------------------------------------------------------------------------
\* The globals of event.c are unset, 0 or within SDL's user numbers, after any
\* number of commands, and still when SDL has run out of numbers.
THEOREM Typing == Spec => []TypeOK
<1>1. Counted => TypeOK
  BY DEF Counted, SentOK, CodecAfter, TypeOK
<1> QED
  BY <1>1, CountedInvariant, PTL

\* Nothing but the number of commands published decides what the globals are,
\* so that a model may start with any number of them behind it.
Countable == \E n \in Nat : CodecAfter(n)
THEOREM CommandsCount == Spec => []Countable
<1>1. Counted => Countable
  BY DEF Counted, Countable
<1> QED
  BY <1>1, CountedInvariant, PTL

\* With some 900 numbers or more for SDL to hand out (it has 32768), keys, window
\* and quit events come out of oxi_from_sdl_event as what they are until SDL has
\* no block left, and as commands from then on.
THEOREM InputsUntilNoneLeft ==
  ASSUME SDL_EVENT_LAST >= SDL_EVENT_USER + 895
  PROVE  Spec => []InputsKeepType
<1>1. ASSUME NEW n \in Nat, CodecAfter(n) PROVE InputsKeepType
  <2> SUFFICES ASSUME NEW t \in DOMAIN InputType
               PROVE  IsCommand(t) <=> cmd_event_type_first = 0
    BY DEF InputsKeepType, oxi_from_sdl_event, InputType, Event, SDL_EVENT_QUIT,
           SDL_EVENT_WINDOW_EXPOSED, SDL_EVENT_KEY_DOWN
  <2>1. t \in 0..SDL_EVENT_KEY_UP
    BY DEF InputType, SDL_EVENT_QUIT, SDL_EVENT_WINDOW_EXPOSED, SDL_EVENT_KEY_DOWN
  <2>2. CASE cmd_event_type_first = 0
    <3>1. n >= 129
      BY <1>1, <2>2 DEF CodecAfter
    <3> QED
      BY <1>1, <2>1, <2>2, <3>1 DEF CodecAfter, IsCommand
  <2>3. CASE cmd_event_type_first # 0
    BY <1>1, <2>1, <2>3 DEF CodecAfter, IsCommand
  <2> QED
    BY <2>2, <2>3
<1>2. Counted => InputsKeepType
  BY <1>1 DEF Counted
<1> QED
  BY <1>2, CountedInvariant, PTL

\* A block of numbers registered for a command lies above the ones before, so two
\* system commands never share a number while SDL has a block left; once it has
\* none every call gets 0, and there is no way back.
THEOREM BlocksStayDisjoint == Spec => BlocksDisjoint
<1>1. Counted /\ [Next]_vars => [NextBlockAbove]_vars
  BY EveryStep DEF Counted
<1> QED
  BY <1>1, CountedInvariant, PTL DEF Spec, BlocksDisjoint

\* Until SDL runs out of numbers, oxi_from_sdl_event takes no number at all for a
\* command: the end of the range, which counts up by 6 from -1, is below its
\* start, so that the commands lost in the run command_lost are all of them, for
\* any numbers SDL hands out.
NoneRecognised == cmd_event_type_first # 0 => \A t \in Nat : ~IsCommand(t)
THEOREM NoCommandIsRecognised == Spec => []NoneRecognised
<1>1. ASSUME NEW n \in Nat, CodecAfter(n), cmd_event_type_first # 0, NEW t \in Nat
      PROVE  ~IsCommand(t)
  BY <1>1 DEF CodecAfter, IsCommand
<1>2. Counted => NoneRecognised
  BY <1>1 DEF Counted, NoneRecognised
<1> QED
  BY <1>2, CountedInvariant, PTL
===============================================================================
