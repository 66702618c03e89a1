--------------------------- MODULE KeychainBackup ---------------------------
(***************************************************************************)
(* A device's keychain of history keys and the one encrypted copy the      *)
(* server keeps of it for the account: setEpochTak, recordKey,             *)
(* exportKeychain and importKeychain of packages/mls/src/takSession.ts,    *)
(* the uploader uploadTakKeychainNow of src/src/lib/mls/webTransport.ts    *)
(* (pushTakKeychain on the phone, serialised there by backupRetry.ts) and  *)
(* upsertTakBackup.  The keys are those of one topic, and a key is its     *)
(* epoch.                                                                  *)
(*                                                                         *)
(* Every device mints a master key of its own when it first stores         *)
(* anything.  The account's is the one its recovery code wraps, the key of *)
(* the device recovery was set up on (Minter); another device gets it by   *)
(* recovering.                                                             *)
(***************************************************************************)
EXTENDS TakMailbox

CONSTANTS
  Minter,      \* account -> the device its recovery was set up on, if it was
  Fresh,       \* accounts that have no backup yet
  Watched      \* bound of a tier: the accounts whose backup is looked at

ASSUME MinterType ==
  /\ Minter \in [Account -> Device \cup {None}]
  /\ \A a \in Account : Minter[a] # None => OwnerOf[Minter[a]] = a
ASSUME WatchedType == Fresh \subseteq Account /\ Watched \in [Tier -> SUBSET Account]

VARIABLES
  held,        \* device -> epochs whose key is in its store
  listed,      \* device -> the ones its manifest lists
  refused,     \* device -> epochs whose key its store last refused (history)
  master,      \* device -> the device that minted the master key it uses
  seal,        \* account -> whose master key seals its backup
  backup,      \* account -> the keys in it
  upload       \* device -> the backup it merges into, while an upload runs

keychainVars == <<held, listed, refused, master, seal, backup, upload>>

KeychainInit ==
  /\ held = [d \in Device |-> IF d \in leaves THEN {0} ELSE {}]
  /\ listed = held
  /\ refused = [d \in Device |-> {}]
  /\ master = [d \in Device |-> d]
  /\ seal = [a \in Account |-> IF a \in Fresh THEN None ELSE Minter[a]]
  /\ backup = [a \in Account |-> IF seal[a] = None THEN {}
                             ELSE UNION {held[d] : d \in {e \in Device : OwnerOf[e] = a}}]
  /\ upload = [d \in Device |-> None]

\* setEpochTak and recordKey: a key that is held is neither written nor listed a
\* second time.
Hold(d, keys) ==
  /\ held' = [held EXCEPT ![d] = @ \cup keys]
  /\ listed' = [listed EXCEPT ![d] = @ \cup (keys \ held[d])]

\* A key a call of the app cannot do without: if the store refuses it, the call
\* fails there and nothing of it is done.  The manifest is one value, read,
\* changed and written back: a recording that overlaps, or an app that stops
\* before it, leaves keys unlisted.
Learn(d, keys) ==
  /\ \/ Hold(d, keys) /\ UNCHANGED faults
     \/ /\ ~(keys \subseteq held[d]) /\ Fault(d)
        /\ held' = [held EXCEPT ![d] = @ \cup keys]
        /\ UNCHANGED listed
  /\ UNCHANGED <<refused, master, seal, backup, upload>>

\* The epoch listener's keys, one epoch at a time.  announceEpoch drops its
\* errors, so the Commit is applied although the store refused the key, or the
\* manifest.
Listen(d, keys) ==
  LET new == keys \ held[d] IN
  /\ \E kept \in SUBSET new : \E noted \in SUBSET kept :
       /\ \/ noted = new /\ UNCHANGED faults
          \/ noted # new /\ Fault(d)
       /\ held' = [held EXCEPT ![d] = @ \cup kept]
       /\ listed' = [listed EXCEPT ![d] = @ \cup noted]
  /\ refused' = [refused EXCEPT ![d] = (@ \cup keys) \ held'[d]]
  /\ UNCHANGED <<master, seal, backup, upload>>

-----------------------------------------------------------------------------
\* What d finds to merge into: nothing, when it cannot open the row.
Found(d) == IF seal[OwnerOf[d]] = master[d] THEN backup[OwnerOf[d]] ELSE {}

\* Mutant of MayUpload: no look at whose key the row is sealed under.
MayAlways(d) == TRUE

\* getDeviceKeyState # 'recoverable': the row opens, or nothing could open it.
MayUpload(d) ==
  \/ seal[OwnerOf[d]] \in {None, master[d]}
  \/ Minter[OwnerOf[d]] = None

\* The backup is read, when a key changed or a session began; one that covers
\* everything listed is left alone.
ReadBackup(d) ==
  /\ OwnerOf[d] \in Watched[tier]
  /\ upload[d] = None
  /\ MayUpload(d)
  /\ listed[d] \ Found(d) # {}
  /\ upload' = [upload EXCEPT ![d] = Found(d)]
  /\ UNCHANGED <<held, listed, refused, master, seal, backup>>

\* exportKeychain over what was read.
Merge(d) == upload[d] \cup listed[d]

\* POST keys/tak-backup replaces the row, whatever was stored since it was read.
WriteBackup(d) ==
  LET a == OwnerOf[d] IN
  /\ upload[d] # None
  /\ backup' = [backup EXCEPT ![a] = Merge(d)]
  /\ seal' = [seal EXCEPT ![a] = master[d]]
  /\ upload' = [upload EXCEPT ![d] = None]
  /\ UNCHANGED <<held, listed, refused, master>>

\* recoverDevice: the account's master key is installed; a backup it opens is
\* imported, and the manifest then lists that backup's keys and no others.
Recover(d) ==
  LET a == OwnerOf[d] IN
  /\ a \in Watched[tier] /\ Minter[a] \notin {None, master[d]}
  /\ upload[d] = None
  /\ master' = [master EXCEPT ![d] = Minter[a]]
  /\ IF seal[a] = Minter[a]
     THEN /\ held' = [held EXCEPT ![d] = @ \cup backup[a]]
          /\ listed' = [listed EXCEPT ![d] = backup[a]]
     ELSE UNCHANGED <<held, listed>>
  /\ UNCHANGED <<refused, seal, backup, upload>>

-----------------------------------------------------------------------------
KeychainTypeOK ==
  /\ held \in [Device -> SUBSET Epochs]
  /\ \A d \in Device : listed[d] \subseteq held[d] /\ refused[d] \subseteq Epochs
  /\ master \in [Device -> Device]
  /\ seal \in [Account -> Device \cup {None}]
  /\ backup \in [Account -> SUBSET Epochs]
  /\ upload \in [Device -> SUBSET Epochs \cup {None}]

\* Once no more keys come, the account's backup holds every key its devices list
\* and loses none again, although the row is one for all of them, is replaced
\* whole, and two uploads that overlap drop what the other added.
BackedUp ==
  \A d \in Device :
    <>[](OwnerOf[d] \in Watched[tier] /\ master[d] = Minter[OwnerOf[d]]
           => listed[d] \subseteq backup[OwnerOf[d]])

\* takSession.ts: importKeychain "rebuilds the manifest so a later export
\* round-trips" the keys of this device.
HeldIsListed == \A d \in Device : held[d] \subseteq listed[d]

\* webTransport.ts: an upload from a device with a throwaway key "would CLOBBER
\* the account's real backup, so nothing was sent".
RecoveryOpens == \A a \in Account : Minter[a] # None => seal[a] \in {None, Minter[a]}
=============================================================================
