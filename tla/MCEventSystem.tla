----------------------------- MODULE MCEventSystem -----------------------------
(* EventSystem for TLC: the values the configurations share. *)
EXTENDS EventSystem

CONSTANTS cb1, cb2   \* two callbacks

\* quit and key subscribers; a key, a quit and a mouse motion event
MCTopics == {OX_EVENT_KEY_DOWN, OX_EVENT_QUIT}
MCInputs == {SDL_EVENT_KEY_DOWN, SDL_EVENT_QUIT, 1024}
MCQuit   == {OX_EVENT_QUIT}
MCNone   == {}
===============================================================================
