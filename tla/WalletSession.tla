---------------------------- MODULE WalletSession ----------------------------
(* The native wallet of one browser (src/frontend: hooks/useNativeWallet,     *)
(* lib/wallet, components/onboarding, WalletProvider, WalletGate): one slot   *)
(* in localStorage for an encrypted key, and tabs that create, import, back   *)
(* up, unlock, lock and remove it. Encrypting and decrypting are awaited, so  *)
(* other events come in between; what follows an await runs even when the     *)
(* form that started it is no longer shown.                                   *)
(*                                                                            *)
(* A key stands for the pair, for its secret and for its encrypted form: what *)
(* is stored for a key opens to that key, or to nothing with a wrong password *)
(* (decryptWallet checks the public key). `address' and `secret' are always   *)
(* set together.                                                              *)
EXTENDS Naturals

CONSTANTS Keys,     \* key pairs
          Foreign,  \* the keys the user held before coming here
          Tabs,
          None

ASSUME WalletSessionAssumption == Foreign \subseteq Keys /\ None \notin Keys

VARIABLES stored,   \* localStorage[WALLET_STORAGE_KEY]
          tab,      \* the React state of each tab and what it awaits
          written,  \* keys the user has a copy of outside the browser
          made,     \* history: keys that were generated
          kept      \* history: keys that were ever stored
vars == <<stored, tab, written, made, kept>>

-----------------------------------------------------------------------------
Opened(k) == [encrypted |-> k,      \* the stored wallet as read at mount
              secret |-> None,      \* the key in memory
              active |-> FALSE,     \* setup.active
              backup |-> None,      \* setup.backupSecret
              saving |-> None,      \* the key whose encryption is awaited
              creates |-> FALSE,    \* ... by create, not by importWallet
              opening |-> {},       \* keys whose decryption is awaited
              late |-> {}]          \* history: those removed while it was awaited

Set(w, s) == tab' = [tab EXCEPT ![w] = s]
EndSetup(s) == [s EXCEPT !.active = FALSE, !.backup = None]

(* WalletGate.                                                                *)
Screen(s) ==
  CASE s.backup # None -> "backup"
    [] s.backup = None /\ (s.active \/ s.encrypted = None) -> "onboarding"
    [] s.backup = None /\ ~s.active /\ s.encrypted # None /\ s.secret = None -> "unlock"
    [] OTHER -> "wallet"

(* WalletProvider's effect: locking drops any secret still on screen.         *)
SecretStays(s) == [s EXCEPT !.secret = None]      \* fault: no such effect
WithoutSecret(s) ==
  LET t == [s EXCEPT !.secret = None]
  IN  IF s.secret # None /\ s.backup # None THEN EndSetup(t) ELSE t

Init ==
  /\ stored = None /\ written = Foreign /\ made = {} /\ kept = {}
  /\ tab = [w \in Tabs |-> Opened(None)]

-----------------------------------------------------------------------------
(* Onboarding.submit up to its await. The button is disabled while one runs.  *)
NotBegun(s) == s                                  \* fault: beginSetup not called
Begun(s) == [s EXCEPT !.active = TRUE, !.backup = None]

Create(w, k) ==
  /\ Screen(tab[w]) = "onboarding" /\ tab[w].saving = None
  /\ k \notin made \cup Foreign
  /\ Set(w, [Begun(tab[w]) EXCEPT !.saving = k, !.creates = TRUE])
  /\ made' = made \cup {k}
  /\ UNCHANGED <<stored, written, kept>>

Import(w, k) ==
  /\ Screen(tab[w]) = "onboarding" /\ tab[w].saving = None
  /\ k \in written
  /\ Set(w, [tab[w] EXCEPT !.saving = k, !.creates = FALSE])
  /\ UNCHANGED <<stored, written, made, kept>>

(* What follows: store, open, and after create show the secret for backup.    *)
BackupShown(s) == [s EXCEPT !.active = TRUE, !.backup = s.saving]

Saved(w) ==
  LET s == tab[w]
      t == IF s.creates THEN BackupShown(s) ELSE s
  IN  /\ s.saving # None
      /\ stored' = s.saving /\ kept' = kept \cup {s.saving}
      /\ Set(w, [t EXCEPT !.encrypted = s.saving, !.secret = s.saving,
                          !.saving = None, !.creates = FALSE])
      /\ UNCHANGED <<written, made>>

(* Or an error: an invalid key, no room in localStorage.                      *)
SetupKept(s) == s                                 \* fault: catch without endSetup
AfterError(s) == EndSetup(s)

SaveFailed(w) ==
  /\ tab[w].saving # None
  /\ Set(w, [AfterError(tab[w]) EXCEPT !.saving = None, !.creates = FALSE])
  /\ UNCHANGED <<stored, written, made, kept>>

(* BackupSecret: the secret is revealed, copied out, and that is confirmed.   *)
Acknowledge(w) ==
  /\ Screen(tab[w]) = "backup"
  /\ written' = written \cup {tab[w].backup}
  /\ Set(w, EndSetup(tab[w]))
  /\ UNCHANGED <<stored, made, kept>>

-----------------------------------------------------------------------------
(* Unlock. The form is busy while it waits; a remounted one for the same key  *)
(* could start the same decryption again, to the same effect.                 *)
Unlock(w) ==
  LET s == tab[w]
  IN  /\ Screen(s) = "unlock" /\ s.encrypted \notin s.opening
      /\ Set(w, [s EXCEPT !.opening = @ \cup {s.encrypted}])
      /\ UNCHANGED <<stored, written, made, kept>>

Unlocked(w, k) ==
  /\ k \in tab[w].opening
  /\ Set(w, [tab[w] EXCEPT !.opening = @ \ {k}, !.secret = k])
  /\ UNCHANGED <<stored, written, made, kept>>

WrongPassword(w, k) ==
  /\ k \in tab[w].opening
  /\ Set(w, [tab[w] EXCEPT !.opening = @ \ {k}])
  /\ UNCHANGED <<stored, written, made, kept>>

(* The Lock button of the wallet, or on any screen fifteen idle minutes.      *)
Lock(w) ==
  /\ tab[w].secret # None
  /\ Set(w, WithoutSecret(tab[w]))
  /\ UNCHANGED <<stored, written, made, kept>>

(* RemoveWalletDialog, in the settings and on the unlock form, also while the *)
(* password is checked: offered to a user who confirms, here truthfully, to   *)
(* hold a copy of the secret. It neither waits for a decryption nor cancels it.*)
RemoveUnasked(w) == TRUE                          \* fault: checkbox not required
MayRemove(w) == tab[w].encrypted \in written

RemovedFromStorage(s) ==                          \* fault: the open key stays in memory
  [s EXCEPT !.encrypted = None, !.late = @ \cup s.opening]
Removed(s) == [WithoutSecret(s) EXCEPT !.encrypted = None, !.late = @ \cup s.opening]

Remove(w) ==
  /\ Screen(tab[w]) \in {"unlock", "wallet"} /\ MayRemove(w)
  /\ stored' = None
  /\ Set(w, Removed(tab[w]))
  /\ UNCHANGED <<written, made, kept>>

(* The page is reloaded, or closed and opened again.                          *)
Reload(w) ==
  /\ Set(w, Opened(stored))
  /\ UNCHANGED <<stored, written, made, kept>>

Step(w) ==
  \/ \E k \in Keys : Create(w, k) \/ Import(w, k) \/ Unlocked(w, k) \/ WrongPassword(w, k)
  \/ Saved(w) \/ SaveFailed(w) \/ Acknowledge(w) \/ Unlock(w) \/ Lock(w)
  \/ Remove(w) \/ Reload(w)

Next == \E w \in Tabs : Step(w)

Spec == Init /\ [][Next]_vars

-----------------------------------------------------------------------------
(* The state keeps its shape; a creation in flight has begun its setup.       *)
TypeOK ==
  /\ stored \in Keys \cup {None}
  /\ written \subseteq Keys /\ made \subseteq Keys /\ kept \subseteq Keys
  /\ tab \in [Tabs -> [encrypted : Keys \cup {None}, secret : Keys \cup {None},
                       active : BOOLEAN, backup : Keys \cup {None},
                       saving : Keys \cup {None}, creates : BOOLEAN,
                       opening : SUBSET Keys, late : SUBSET Keys]]
  /\ \A w \in Tabs : tab[w].creates => tab[w].active /\ tab[w].saving # None

(* A key that money may have been sent to is never beyond the user's reach,   *)
(* through failed steps, locks, reloads, removal and new wallets: it is the   *)
(* one stored (WalletGate asks for its password), or is copied out.           *)
KeyRecoverable == kept \subseteq written \cup {stored}

(* Nobody is left at onboarding beside a wallet that exists: setup is active  *)
(* only while a key is being created or its backup is on screen, whatever     *)
(* fails or locks in between (Onboarding.tsx:61-69, WalletProvider.tsx:46). *)
SetupHasReason ==
  \A w \in Tabs : tab[w].active => tab[w].backup # None \/ tab[w].creates

(* A locked tab shows no secret (the comment of WalletProvider.tsx:45), and a *)
(* secret it does show is the one of the wallet it has open and stored, also  *)
(* when the key in memory has come to be another one (OneWallet).             *)
LockedShowsNothing ==
  \A w \in Tabs : tab[w].backup # None =>
    tab[w].secret # None /\ tab[w].backup = tab[w].encrypted

(* The key that signs is the key of the wallet the tab knows, or one whose    *)
(* password was being checked when its wallet was removed: a lock, a removal, *)
(* a failure or a new wallet leaves no other key in memory.                   *)
SecretOfWallet ==
  \A w \in Tabs : tab[w].secret \in {None, tab[w].encrypted} \cup tab[w].late

(* RemoveWalletDialog.tsx:14 of a removed wallet: "Your funds stay on Stellar,*)
(* but you can only access them again with your secret key." So no answer     *)
(* that comes late opens a wallet that was removed.                           *)
OneWallet == \A w \in Tabs : tab[w].secret \in {None, tab[w].encrypted}

(* WalletProvider.tsx:29 of `setup': "Set while the create flow is running    *)
(* and until the secret key backup is acknowledged."                          *)
BackupStepKept ==
  [][\A w \in Tabs : (tab[w].backup # None /\ tab'[w].backup = None) =>
       tab[w].backup \in written']_vars
=============================================================================
