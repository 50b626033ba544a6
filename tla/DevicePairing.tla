---------------------------- MODULE DevicePairing ----------------------------
(***************************************************************************)
(* The start of an agent process: the CLI of fb-agent-cli.ts, which asks   *)
(* for a pairing token until the device is paired, the pairing itself      *)
(* (services/fireblocks-agent.ts) and the device data file                 *)
(* (services/device.service.ts).  The process may die at any step, also    *)
(* while the file is written, and is started again; index.ts logs a        *)
(* rejection of main that nobody catches and keeps the process running.    *)
(* The operator, Fireblocks and the disk are external.  A device is named  *)
(* by the pairing token that created it.                                   *)
(* Definitions named Wrong... are variants of the one below them with a    *)
(* plausible defect: with it, the property named there must fail.          *)
(***************************************************************************)

CONSTANTS
  Tokens,     \* bound: pairing tokens the operator may be given
  None

ASSUME TokensAssumption == None \notin Tokens /\ "partial" \notin Tokens /\ None # "partial"

VARIABLES
  pc,         \* what main waits for; "stopped": it was rejected, the process idles
  token,      \* the pairing token in use
  cache,      \* deviceDataCache
  file,       \* what TOKEN_PATH holds; None: it does not exist
  used,       \* Fireblocks: pairing tokens that have been used
  wasted,     \* history: used tokens whose device data was lost, and where
  promptLost  \* history: did the prompt fail in this process

pairing == <<pc, token, cache, file, used, wasted, promptLost>>

PInit ==
  /\ pc = "down" /\ token = None /\ cache = None /\ file = None
  /\ used = {} /\ wasted = {} /\ promptLost = FALSE

-----------------------------------------------------------------------------
(* isPaired looks for the file, getDeviceData must also parse it.          *)

(* Only what this process has saved counts: SavedForGood fails.            *)
WrongIsPaired(data, stored) == data # None
IsPaired(data, stored) == data # None \/ stored # None

(* A file that cannot be parsed is taken for device data: RunsPaired       *)
(* fails.                                                                  *)
WrongReadable(data, stored) == TRUE
Readable(data, stored) == data # None \/ stored # "partial"

(* main goes on: it asks again until the device is paired, and then reads  *)
(* the device data and runs the main loop, or is rejected.                 *)
Continues(data, stored) ==
  pc' = IF ~IsPaired(data, stored) THEN "prompt"
        ELSE IF Readable(data, stored) THEN "running" ELSE "stopped"

(* start, and its timer.                                                   *)
Launch ==
  /\ pc = "down"
  /\ pc' = "loading" /\ token' = None /\ promptLost' = FALSE
  /\ UNCHANGED <<cache, file, used, wasted>>

(* The file is kept in memory as it is, without reading it: VTypeOK fails. *)
WrongMain ==
  /\ pc = "loading" /\ Continues(file, file)
  /\ cache' = file
  /\ UNCHANGED <<token, file, used, wasted, promptLost>>

Main ==
  /\ pc = "loading" /\ Continues(cache, file)
  /\ UNCHANGED <<token, cache, file, used, wasted, promptLost>>

(* promptPairingToken: any token in the right format, also one that was    *)
(* used before.                                                            *)

(* The first answer is used again and again: StartsUp fails.               *)
WrongEnter(t) ==
  /\ pc = "prompt"
  /\ pc' = "pairing" /\ token' = IF token = None THEN t ELSE token
  /\ UNCHANGED <<cache, file, used, wasted, promptLost>>

Enter(t) ==
  /\ pc = "prompt"
  /\ pc' = "pairing" /\ token' = t
  /\ UNCHANGED <<cache, file, used, wasted, promptLost>>

(* The prompt is rejected (its input is closed): the catch of pairDevice   *)
(* throws on the spinner that does not exist yet.                          *)
PromptFails ==
  /\ pc = "prompt"
  /\ pc' = "stopped" /\ promptLost' = TRUE
  /\ UNCHANGED <<token, cache, file, used, wasted>>

-----------------------------------------------------------------------------
(* The pair_device request.                                                *)

Paired ==
  /\ pc = "pairing" /\ token \notin used
  /\ used' = used \cup {token}
  /\ pc' = "saving"
  /\ UNCHANGED <<token, cache, file, wasted, promptLost>>

(* A failed pairing is not caught: StoppedExplained fails.                 *)
WrongPairingFails ==
  /\ pc = "pairing" /\ pc' = "stopped"
  /\ UNCHANGED <<token, cache, file, used, wasted, promptLost>>

PairingFails ==
  /\ pc = "pairing" /\ Continues(cache, file)
  /\ UNCHANGED <<token, cache, file, used, wasted, promptLost>>

PairResponseLost ==
  /\ pc = "pairing" /\ token \notin used
  /\ used' = used \cup {token} /\ wasted' = wasted \cup {<<token, "response">>}
  /\ Continues(cache, file)
  /\ UNCHANGED <<token, cache, file, promptLost>>

-----------------------------------------------------------------------------
(* saveDeviceData: writeFileSync opens, and so empties, the file before it *)
(* writes.  An error is logged and no more: the CLI says that the device   *)
(* is paired.                                                              *)

SaveOpens ==
  /\ pc = "saving"
  /\ pc' = "writing" /\ file' = "partial"
  /\ UNCHANGED <<token, cache, used, wasted, promptLost>>

(* The data is kept in memory only: NothingElseWasted fails.               *)
WrongSaved ==
  /\ pc = "writing"
  /\ file' = None /\ cache' = token
  /\ Continues(token, None)
  /\ UNCHANGED <<token, used, wasted, promptLost>>

Saved ==
  /\ pc = "writing"
  /\ file' = token /\ cache' = token
  /\ Continues(token, token)
  /\ UNCHANGED <<token, used, wasted, promptLost>>

SaveFails ==
  /\ pc \in {"saving", "writing"}
  /\ wasted' = wasted \cup {<<token, "save">>}
  /\ Continues(cache, file)
  /\ UNCHANGED <<token, cache, file, used, promptLost>>

(* The process dies, by an uncaught exception or from outside.             *)
ProcessEnds ==
  /\ pc # "down"
  /\ pc' = "down" /\ cache' = None
  /\ wasted' = wasted \cup (IF pc \in {"saving", "writing"} THEN {<<token, "exit">>} ELSE {})
  /\ UNCHANGED <<token, file, used, promptLost>>

Pairs ==
  \/ Main \/ (\E t \in Tokens : Enter(t)) \/ PromptFails
  \/ Paired \/ PairingFails \/ PairResponseLost
  \/ SaveOpens \/ Saved \/ SaveFails
-----------------------------------------------------------------------------
(* Every variable has its type.                                            *)
PTypeOK ==
  /\ pc \in {"down", "loading", "prompt", "pairing", "saving", "writing", "running", "stopped"}
  /\ token \in Tokens \cup {None} /\ cache \in Tokens \cup {None}
  /\ file \in Tokens \cup {None, "partial"} /\ used \subseteq Tokens
  /\ wasted \subseteq Tokens \X {"response", "save", "exit"}
  /\ promptLost \in BOOLEAN

(* The main loop runs only with the complete data of a device that         *)
(* Fireblocks knows, also after an earlier process died while it wrote the *)
(* file.                                                                   *)
RunsPaired == pc = "running" => (IF cache # None THEN cache ELSE file) \in used

(* A process whose main was rejected idles, and nothing but a prompt that  *)
(* failed or a file that was left half-written brings it there: a rejected *)
(* pairing, a lost answer or a full disk met on opening lead back to the   *)
(* prompt (fb-agent-cli.ts:17-19).                                         *)
StoppedExplained == pc = "stopped" => promptLost \/ file = "partial"

(* A pairing token is used up for nothing only when the answer was lost,   *)
(* the file could not be written or the process died before it was         *)
(* written; otherwise its device is the one in the file, and in memory if  *)
(* this process paired it.                                                 *)
NothingElseWasted ==
  \A t \in used : \/ file = t /\ cache \in {None, t}
                  \/ t = token /\ pc \in {"saving", "writing"}
                  \/ \E why \in {"response", "save", "exit"} : <<t, why>> \in wasted

(* Once written, the device data is never emptied or written again,        *)
(* whatever restarts and pairings follow.                                  *)
SavedForGood == [][(file \in Tokens) => file' = file]_pairing

(* A process that stays up comes to its main loop, as long as there is a   *)
(* token that was not used, or idles (see StoppedExplained).               *)
StartsUp == <>[](pc # "down") => <>[](pc \in {"running", "stopped"} \/ Tokens \subseteq used)
=============================================================================
