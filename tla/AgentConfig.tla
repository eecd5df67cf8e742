----------------------------- MODULE AgentConfig -----------------------------
(***************************************************************************)
(* The settings of agent-core.  Every process that uses them, the agent    *)
(* and the setup wizard, loads its own copy from what the download package *)
(* put beside the program, what was appended to the program, and the file  *)
(* agent.enx that agent-core itself saved (or the agent_config.json of     *)
(* older versions), applies the flags of the command line, and from then   *)
(* on writes its whole copy back whenever it changes a field.  The desktop *)
(* copies or merges the settings of the package into the saved file before *)
(* it starts the agent.                                                    *)
(*                                                                         *)
(* agent.enx is sealed with a key that the key store of the system keeps.  *)
(* When the store does not give the key a new one is made: what the old    *)
(* one sealed can then no longer be read.  If that fails too the file is   *)
(* written as plain text.                                                  *)
(*                                                                         *)
(* A value stands for where it comes from; "" is an empty one.             *)
(***************************************************************************)
EXTENDS Naturals, Sequences

CONSTANTS
  Bundles,    \* the download packages a user may unpack, in turn
  Injected,   \* the settings appended to the program
  Legacy,     \* what an older version has left in agent_config.json
  SetupModes, \* the modes of activation that people enter in the wizard
  MaxKeys,    \* bound on the keys made
  MaxLoads,   \* bound on the processes started
  MaxSaves    \* bound on the changes saved by them

\* url: platform_url, which ws_url, the activation key and the enrolment token go along with;
\* mode: activation_mode; dist: distribution_package_version; version: config_version.
SettingNames == {"url", "mode", "dist", "version"}
Nowhere == [f \in SettingNames |-> ""]

ASSUME ConfigConstants ==
  /\ Bundles \in Seq([SettingNames -> STRING])
  /\ Injected \in [SettingNames -> STRING] /\ Legacy \in [SettingNames -> STRING]
  /\ SetupModes \subseteq {"", "chosen"}
  /\ MaxKeys \in Nat /\ MaxLoads \in Nat /\ MaxSaves \in Nat

VARIABLES
  bundled,   \* the package unpacked beside the program, 0 for none
  saved,     \* agent.enx in the data directory
  legacy,    \* agent_config.json beside it, Nowhere when there is none
  osKey,     \* the key in the key store; keys are counted from 1, 0 for none
  copies,    \* what each running process holds, and the fields it may hold out of date
  lastSet,   \* history: what was last set and should last, see SavedComesBack
  unsealed,  \* history: the last save of agent-core was not sealed, or not made
  starts, saves  \* counters of the bounds

configVars == <<bundled, saved, legacy, osKey, copies, lastSet, unsealed, starts, saves>>

AgentProcesses == {"agent", "setup"}
NoSaved == [kind |-> "none", conf |-> Nowhere, key |-> 0, numbers |-> FALSE]
NotRunning == [up |-> FALSE, conf |-> Nowhere, doubt |-> SettingNames]
GivenTexts ==
  {Bundles[b][f] : b \in DOMAIN Bundles, f \in SettingNames}
    \union {Injected[f] : f \in SettingNames} \union {Legacy[f] : f \in SettingNames}
SettingValues == {"", "default", "flag", "chosen", "told", "applied"} \union GivenTexts

ConfigTypeOK ==
  /\ bundled \in 0 .. Len(Bundles)
  /\ saved \in [kind : {"none", "empty", "plain", "broken", "sealed"},
                conf : [SettingNames -> SettingValues], key : 0 .. MaxKeys, numbers : BOOLEAN]
  /\ legacy \in [SettingNames -> SettingValues]
  /\ osKey \in 0 .. MaxKeys
  /\ copies \in [AgentProcesses -> [up : BOOLEAN, conf : [SettingNames -> SettingValues],
                                    doubt : SUBSET SettingNames]]
  /\ lastSet \in [SettingNames -> SettingValues]
  /\ unsealed \in BOOLEAN
  /\ starts \in 0 .. MaxLoads /\ saves \in 0 .. MaxSaves

ConfigInit ==
  /\ bundled = 0
  /\ saved = NoSaved
  /\ legacy \in {Nowhere, Legacy}
  /\ osKey = 0
  /\ copies = [p \in AgentProcesses |-> NotRunning]
  /\ lastSet = legacy
  /\ unsealed = FALSE
  /\ starts = 0 /\ saves = 0

-----------------------------------------------------------------------------
\* The key store.

\* getOrCreateOSKey: the key that is used afterwards, 0 when there is none to use.  The store gives
\* the key it has, or it does not but takes a new one, or it does neither.
KeyOutcomes == {0, osKey} \union (IF osKey < MaxKeys THEN {osKey + 1} ELSE {})

\* What is in the store after that.
Kept(key) == IF key = 0 THEN osKey ELSE key

-----------------------------------------------------------------------------
\* Loading.

\* applyPartial: fields that are empty in what is loaded leave what was there.
Overlaid(base, conf) == [f \in SettingNames |-> IF conf[f] = "" THEN base[f] ELSE conf[f]]

\* config.json and the settings appended to the program have no config_version.
WithoutVersion(conf) == [conf EXCEPT !["version"] = ""]

Defaults == [Nowhere EXCEPT !["url"] = "default"]
Bundle == IF bundled = 0 THEN Nowhere ELSE Bundles[bundled]

\* Can agent.enx be read with this key?  An empty file can.
CanRead(key) ==
  \/ saved.kind \in {"plain", "empty"}
  \/ saved.kind = "sealed" /\ saved.key = key

\* loadFromDisk: agent.enx, or else what an older version left.
OnDisk(key) == IF CanRead(key) THEN saved.conf ELSE legacy

\* A slip: the package is looked at last.
LoadBundleLast(key) ==
  Overlaid(Overlaid(Overlaid(Defaults, WithoutVersion(Injected)), OnDisk(key)), Bundle)

\* NewManager.
Load(key) == Overlaid(Overlaid(Overlaid(Defaults, Bundle), WithoutVersion(Injected)), OnDisk(key))

-----------------------------------------------------------------------------
\* Saving.

\* A slip: the file of the older version is removed even if the new one was not written.
LegacyAfterAlways(how) == Nowhere

\* It is removed once agent.enx has been written.
LegacyAfter(how) == IF how = "written" THEN Nowhere ELSE legacy

\* saveToDisk writes the whole configuration, sealed if there is a key; the file may not be
\* opened, and it is emptied before it is written, which may then fail or be cut short.
SavesAs(conf, key, how) ==
  /\ saved' = CASE how = "written" -> [kind |-> IF key = 0 THEN "plain" ELSE "sealed",
                                       conf |-> conf, key |-> key, numbers |-> TRUE]
                [] how = "cut" -> [NoSaved EXCEPT !.kind = "empty"]
                [] how = "not opened" -> saved
  /\ legacy' = LegacyAfter(how)
  /\ unsealed' = (key = 0 \/ how = "not opened")
  /\ osKey' = Kept(key)

SaveOutcomes == {"written", "cut", "not opened"}

\* A slip: only a file that is empty is sealed.
IsPlainEmpty == saved.kind = "empty"

\* migrateToEncrypted looks for a file that is neither empty nor sealed.
IsPlain == saved.kind \in {"plain", "broken"}

-----------------------------------------------------------------------------
\* The processes.

\* A process loads its copy, saves it if agent.enx was plain text, and then applies the flags.
\* What was last set is lost to it if the file could not be read, or the flags say otherwise.
Start(p, flagged, readKey, sealKey, how) ==
  LET conf == Load(readKey)
      unread == saved.kind = "broken" \/ (saved.kind = "sealed" /\ saved.key # readKey)
      lost == unread \/ (IsPlain /\ how = "cut")
      conf2 == [f \in SettingNames |-> IF f \in flagged THEN "flag" ELSE conf[f]]
  IN /\ ~copies[p].up
     /\ starts < MaxLoads
     /\ starts' = starts + 1
     /\ readKey \in IF saved.kind = "sealed" THEN KeyOutcomes ELSE {0}
     /\ IF IsPlain THEN sealKey \in KeyOutcomes /\ SavesAs(conf, sealKey, how)
        ELSE /\ sealKey = 0 /\ how = "written"
             /\ osKey' = Kept(readKey) /\ UNCHANGED <<saved, legacy, unsealed>>
     /\ copies' = [copies EXCEPT ![p] = [up |-> TRUE, conf |-> conf2,
                     doubt |-> flagged \union (IF unread THEN SettingNames ELSE {})]]
     /\ lastSet' = IF lost THEN Nowhere ELSE lastSet
     /\ UNCHANGED <<bundled, saves>>

Stop(p) ==
  /\ copies[p].up
  /\ copies' = [copies EXCEPT ![p] = NotRunning]
  /\ UNCHANGED <<bundled, saved, legacy, osKey, lastSet, unsealed, starts, saves>>

\* Update: the process changes fields of its copy, those in the record set, and writes it whole.  Another process
\* does not hear of it, and what it saves later is what it loaded.
Update(p, set, key, how) ==
  LET conf == [f \in SettingNames |-> IF f \in DOMAIN set THEN set[f] ELSE copies[p].conf[f]] IN
  /\ copies[p].up
  /\ saves < MaxSaves
  /\ saves' = saves + 1
  /\ key \in KeyOutcomes
  /\ SavesAs(conf, key, how)
  /\ copies' = [q \in AgentProcesses |->
       IF q = p THEN [copies[p] EXCEPT !.conf = conf, !.doubt = @ \ DOMAIN set]
       ELSE [copies[q] EXCEPT !.doubt = @ \union DOMAIN set \union copies[p].doubt]]
  /\ lastSet' = CASE how = "written" -> [f \in SettingNames |->
                       IF f \in DOMAIN set THEN set[f]
                       ELSE IF f \in copies[p].doubt THEN "" ELSE lastSet[f]]
                [] how = "not opened" -> [f \in SettingNames |->
                       IF f \in DOMAIN set THEN "" ELSE lastSet[f]]
                [] how = "cut" -> Nowhere
  /\ UNCHANGED <<bundled, starts>>

\* The wizard, or the prompts of the command line: an address left empty stays, the mode of
\* activation is what the form says.
SetUp(url, mode, key, how) ==
  Update("setup", IF url THEN [url |-> "chosen", mode |-> mode] ELSE [mode |-> mode], key, how)

\* The agent has pulled a newer configuration (or has enrolled).
PulledConfig(key, how) == Update("agent", [version |-> "told"], key, how)

\* The updater has put another version in place.
AppliedUpdate(key, how) == Update("agent", [dist |-> "applied"], key, how)

-----------------------------------------------------------------------------
\* The user and the desktop.

\* Another download package is unpacked over the program, which is not running then.
Unpack ==
  /\ \A p \in AgentProcesses : ~copies[p].up
  /\ bundled < Len(Bundles)
  /\ bundled' = bundled + 1
  /\ UNCHANGED <<saved, legacy, osKey, copies, lastSet, unsealed, starts, saves>>

\* importBundledConfig copies the package's agent.enx when nothing is saved.
ImportCopies ==
  /\ bundled # 0 /\ saved.kind = "none" /\ legacy = Nowhere
  /\ saved' = [kind |-> "plain", conf |-> Bundle, key |-> 0, numbers |-> FALSE]
  /\ copies' = [p \in AgentProcesses |-> [copies[p] EXCEPT !.doubt = SettingNames]]
  /\ UNCHANGED <<bundled, legacy, osKey, lastSet, unsealed, starts, saves>>

\* When agent.enx is plain text and lacks the mode (or the token, the key, the ws_url) that the
\* package has, it writes the file again, with every value in quotes: agent-core can no longer
\* parse it if it had saved its numbers there.
ImportMerges ==
  /\ bundled # 0
  /\ saved.kind \in {"plain", "empty"}
  /\ Bundle["mode"] # "" /\ saved.conf["mode"] = ""
  /\ saved' = [saved EXCEPT !.kind = IF saved.numbers THEN "broken" ELSE "plain",
                            !.conf["mode"] = Bundle["mode"]]
  /\ copies' = [p \in AgentProcesses |-> [copies[p] EXCEPT !.doubt = SettingNames]]
  /\ lastSet' = IF saved.numbers THEN Nowhere ELSE lastSet
  /\ UNCHANGED <<bundled, legacy, osKey, unsealed, starts, saves>>

ConfigNext ==
  \/ Unpack \/ ImportCopies \/ ImportMerges
  \/ \E p \in AgentProcesses : Stop(p)
  \/ \E key \in 0 .. MaxKeys, how \in SaveOutcomes :
       \/ \E readKey \in 0 .. MaxKeys :
            \/ Start("setup", {}, readKey, key, how)
            \/ \E flagged \in {{}, {"url"}} : Start("agent", flagged, readKey, key, how)
       \/ PulledConfig(key, how) \/ AppliedUpdate(key, how)
       \/ \E url \in BOOLEAN, mode \in SetupModes : SetUp(url, mode, key, how)

ConfigSpec == ConfigInit /\ [][ConfigNext]_configVars

-----------------------------------------------------------------------------
\* What was set and saved comes back: a process that could read what was saved, and has had no
\* other write since, works with every field as it was last set, whatever package has been
\* unpacked meanwhile; the flags of its own command line, and modes set to nothing, aside.
SavedComesBack ==
  \A p \in AgentProcesses : copies[p].up =>
    \A f \in SettingNames \ copies[p].doubt : lastSet[f] # "" => copies[p].conf[f] = lastSet[f]

\* Once agent-core is up its settings are sealed, unless the key store has unsealed, or the
\* desktop has written the file since (crypto.go, "automatically encrypts the data").
PlainOnlyIfRefused ==
  (\E p \in AgentProcesses : copies[p].up /\ copies[p].doubt # SettingNames)
    => saved.kind \in {"none", "empty", "sealed"} \/ unsealed
=============================================================================
