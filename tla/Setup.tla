------------------------------- MODULE Setup -------------------------------
(***************************************************************************)
(* The set-up of the administrator (internal/admin/handler.go) and the     *)
(* file that keeps it and the secrets (internal/config/config.go), from    *)
(* start to restart.                                                       *)
(*                                                                         *)
(* The process may stop at any step, and a file may fail to be written:    *)
(* os.WriteFile empties it and writes it in one call, between which the    *)
(* two may happen.  A file that is missing or empty is Blank.  A secret    *)
(* is not more than its value, and an administrator not more than a name.  *)
(***************************************************************************)
EXTENDS Naturals

CONSTANTS
  Calls,         \* set-ups that may be under way at once
  Admins,        \* what a set-up may name
  Keys,          \* what generateSecrets may draw
  None

VARIABLES
  file,          \* the file
  memory,        \* h.cfg
  stage,         \* "down", "loading", "storing", or "up" when requests are served
  call,          \* where every set-up is
  setupMu,       \* the set-up that holds the lock
  setupDone,
  done           \* history: set-ups that were saved, and so answered with a token

vars == <<file, memory, stage, call, setupMu, setupDone, done>>

(* What the names of the model need. *)
Distinct == None \notin Calls \cup Admins \cup Keys

Blank == [admin |-> None, key |-> None]
NoOne == [c \in Calls |-> "idle"]

(* A file may be given. *)
Init ==
  /\ file \in [admin : Admins \cup {None}, key : Keys \cup {None}]
  /\ memory = Blank /\ stage = "down"
  /\ call = NoOne /\ setupMu = None /\ setupDone = FALSE
  /\ done = 0

----------------------------------------------------------------------------
(* One secret stands for the two that are drawn. *)
GenerateSecrets(k) == [file EXCEPT !.key = k]

(* Load: the file is read, and written anew if it has no secrets. *)
Load ==
  /\ stage = "down"
  /\ \/ file.key # None /\ memory' = file /\ stage' = "up"
     \/ /\ file.key = None
        /\ \E k \in Keys : memory' = GenerateSecrets(k)
        /\ stage' = "loading"
  /\ UNCHANGED <<file, call, setupMu, setupDone, done>>

(* Save, opening the file. *)
OpenLoaded ==
  /\ stage = "loading"
  /\ file' = Blank /\ stage' = "storing"
  /\ UNCHANGED <<memory, call, setupMu, setupDone, done>>

WriteLoaded ==
  /\ stage = "storing"
  /\ file' = memory /\ stage' = "up"
  /\ UNCHANGED <<memory, call, setupMu, setupDone, done>>

(* The process ends, wherever it is, or cannot write its file at the start.*)
Stop ==
  /\ stage # "down"
  /\ stage' = "down" /\ memory' = Blank
  /\ call' = NoOne /\ setupMu' = None /\ setupDone' = FALSE
  /\ UNCHANGED <<file, done>>

----------------------------------------------------------------------------
(* HandleSetup *)

Initialized == memory.admin # None

(* The fast path is looked at without the lock. *)
CheckSetup(c) ==
  /\ stage = "up" /\ call[c] = "idle" /\ ~Initialized
  /\ call' = [call EXCEPT ![c] = "waiting"]
  /\ UNCHANGED <<file, memory, stage, setupMu, setupDone, done>>

(* It is refused if another was done, or for what it asks; otherwise the   *)
(* administrator is in memory from here on, where HandleLogin finds it.    *)
LockSetup(c) ==
  /\ call[c] = "waiting" /\ setupMu = None
  /\ \/ /\ call' = [call EXCEPT ![c] = "idle"]
        /\ UNCHANGED <<memory, setupMu>>
     \/ /\ ~setupDone
        /\ \E a \in Admins : memory' = [memory EXCEPT !.admin = a]
        /\ call' = [call EXCEPT ![c] = "saving"] /\ setupMu' = c
  /\ UNCHANGED <<file, stage, setupDone, done>>

(* Save *)
OpenFile(c) ==
  /\ call[c] = "saving"
  /\ file' = Blank
  /\ call' = [call EXCEPT ![c] = "writing"]
  /\ UNCHANGED <<memory, stage, setupMu, setupDone, done>>

WriteFile(c) ==
  /\ call[c] = "writing"
  /\ file' = memory
  /\ setupDone' = TRUE /\ done' = done + 1
  /\ call' = [call EXCEPT ![c] = "idle"] /\ setupMu' = None
  /\ UNCHANGED <<memory, stage>>

(* "save config failed", at either of the two. *)
SaveFails(c) ==
  /\ call[c] \in {"saving", "writing"}
  /\ call' = [call EXCEPT ![c] = "idle"] /\ setupMu' = None
  /\ UNCHANGED <<file, memory, stage, setupDone, done>>

Next ==
  \/ Load \/ OpenLoaded \/ WriteLoaded \/ Stop
  \/ \E c \in Calls : CheckSetup(c) \/ LockSetup(c) \/ OpenFile(c) \/ WriteFile(c) \/ SaveFails(c)

Spec == Init /\ [][Next]_vars

----------------------------------------------------------------------------
(* Properties. *)

(* Type invariant. *)
TypeOK ==
  /\ file \in [admin : Admins \cup {None}, key : Keys \cup {None}]
  /\ memory \in [admin : Admins \cup {None}, key : Keys \cup {None}]
  /\ stage \in {"down", "loading", "storing", "up"}
  /\ call \in [Calls -> {"idle", "waiting", "saving", "writing"}]
  /\ setupMu \in Calls \cup {None} /\ setupDone \in BOOLEAN /\ done \in Nat

(* The file holds an administrator and the secrets. *)
Whole == file.admin # None /\ file.key # None

(* Whoever sets the system up first is its administrator for good: no      *)
(* other set-up is answered with a token, neither one that was waiting nor *)
(* one after a restart, and the file and the process agree on who it is    *)
(* and on the secrets (handler.go:164-225, config.go:72-123).              *)
SetUpOnce ==
  /\ done <= 1
  /\ done = 1 => Whole /\ (stage = "up" => memory = file)

(* Nothing writes a file again that holds an administrator and the         *)
(* secrets, whether it was given or came of a set-up, so that no crash can *)
(* empty it (handler.go:166-177, config.go:97-105).                        *)
FileKept == [][Whole => file' = file]_vars

=============================================================================
