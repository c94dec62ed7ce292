---------------------------- MODULE ConfigWatch ----------------------------
(***************************************************************************)
(* The configuration file and its snapshot: config/config.go.  Load reads  *)
(* the file and, when it is good, publishes it in currentConfig; main does *)
(* so once, the watcher's goroutine after each change of the file.         *)
(* WatchAndReload starts the watcher before it sets the watcher's callback *)
(* and after the first Load, so changes can fall into either gap.          *)
(*                                                                         *)
(* viper is external: it tells of a change after it, once for changes it   *)
(* has not told yet, and calls the callback it has by then, if any.  The   *)
(* steps of main are those of Lifecycle.tla, which calls this module's.    *)
(***************************************************************************)
EXTENDS Integers

CONSTANT MaxEdits   \* bound: changes of the file

ASSUME ConfigAssumption == MaxEdits \in Nat

VARIABLES file,      \* the file: which edit wrote it, and what it is worth
          heard,     \* history: the callback was set at the last edit
          snapshot,  \* currentConfig: the edit it was read from
          buffer,    \* what the Load of main and of the watcher have read
          watch,     \* the watcher
          event      \* the file has changed and the watcher was not told yet

config == <<file, heard, snapshot, buffer, watch, event>>

\* A bad file is no YAML, or YAML that cannot be unmarshaled.
Content == {"good", "bad"}
File == [edit : 0..MaxEdits, content : Content]
Watch == {"off", "failed", "watching", "reloading"}
Nothing == [edit |-> 0, content |-> "none"]
None == -1

ConfigTypeOK ==
  /\ file \in File
  /\ heard \in BOOLEAN
  /\ snapshot \in {None} \cup 0..MaxEdits
  /\ buffer \in [{"main", "watcher"} -> File \cup {Nothing}]
  /\ watch \in Watch
  /\ event \in BOOLEAN

ConfigInit ==
  /\ file \in [edit : {0}, content : Content]
  /\ heard = FALSE
  /\ snapshot = None
  /\ buffer = [l \in {"main", "watcher"} |-> Nothing]
  /\ watch = "off"
  /\ event = FALSE

Edit ==
  /\ file.edit < MaxEdits
  /\ \E c \in Content : file' = [edit |-> file.edit + 1, content |-> c]
  /\ heard' = (watch = "reloading")
  /\ event' = (event \/ watch \in {"watching", "reloading"})
  /\ UNCHANGED <<snapshot, buffer, watch>>

-----------------------------------------------------------------------------
(***************************************************************************)
(* Load and WatchAndReload                                                 *)
(***************************************************************************)

\* Load, up to the file it has read.
Read(l) == buffer' = [buffer EXCEPT ![l] = file]

\* Load, from there: only a good file is published.
Publish(l) ==
  /\ snapshot' = IF buffer[l].content = "good" THEN buffer[l].edit ELSE snapshot
  /\ buffer' = [buffer EXCEPT ![l] = Nothing]

\* WatchAndReload reads the file once; when it is no YAML by now there will be no
\* watcher, and main does not look at the error.
StartWatch ==
  /\ watch' \in IF file.content = "good" THEN {"watching"} ELSE {"watching", "failed"}
  /\ UNCHANGED <<file, heard, snapshot, buffer, event>>

SetCallback ==
  /\ watch' = IF watch = "watching" THEN "reloading" ELSE watch
  /\ UNCHANGED <<file, heard, snapshot, buffer, event>>

\* A change before the callback is set is heard by nobody.
EventLost ==
  /\ event /\ watch = "watching"
  /\ event' = FALSE
  /\ UNCHANGED <<file, heard, snapshot, buffer, watch>>

ReloadRead ==
  /\ event /\ watch = "reloading" /\ buffer["watcher"] = Nothing
  /\ event' = FALSE
  /\ Read("watcher")
  /\ UNCHANGED <<file, heard, snapshot, watch>>

\* mutant: whatever changed during the reload counts as reloaded.
PublishAndForget ==
  /\ buffer["watcher"] # Nothing
  /\ Publish("watcher")
  /\ event' = FALSE
  /\ UNCHANGED <<file, heard, watch>>

ReloadPublish ==
  /\ buffer["watcher"] # Nothing
  /\ Publish("watcher")
  /\ UNCHANGED <<file, heard, watch, event>>

WatcherStep == EventLost \/ ReloadRead \/ ReloadPublish
=============================================================================
