-------------------------- MODULE WalletPagesProofs --------------------------
(* Proofs about WalletSession, for any keys: the secret, the setup and the    *)
(* wallet of every tab, for any number of them, and the safety of stored keys *)
(* for one; then about WalletPages: what any number of tabs show.             *)
EXTENDS WalletPages, TLAPS

Key == Keys \cup {None}
Tab == [encrypted : Key, secret : Key, active : BOOLEAN, backup : Key, saving : Key,
        creates : BOOLEAN, opening : SUBSET Keys, late : SUBSET Keys]

(* A key is made only where there is no wallet, a password checked only for   *)
(* the wallet that is there or was removed meanwhile, and a secret on screen  *)
(* is the one of the wallet, which is open.                                   *)
TabOK(s) ==
  /\ s.creates => s.active /\ s.saving # None
  /\ s.saving # None => s.encrypted = None /\ s.backup = None
  /\ s.backup # None => s.secret # None /\ s.backup = s.encrypted
  /\ s.active => s.backup # None \/ s.creates
  /\ s.secret \in {None, s.encrypted} \cup s.late
  /\ s.opening \subseteq {s.encrypted} \cup s.late

IInv == TypeOK /\ \A w \in Tabs : TabOK(tab[w])

-----------------------------------------------------------------------------
(* What each event makes of a tab.                                            *)
LEMMA OpenedOK ==
  ASSUME NEW k \in Key PROVE Opened(k) \in Tab /\ TabOK(Opened(k))
BY WalletSessionAssumption DEF Opened, Tab, TabOK, Key

LEMMA NoSetup ==
  ASSUME NEW s \in Tab, TabOK(s)
  PROVE  /\ EndSetup(s) \in Tab
         /\ EndSetup(s).encrypted = s.encrypted /\ EndSetup(s).secret = s.secret
         /\ EndSetup(s).active = FALSE /\ EndSetup(s).backup = None
         /\ EndSetup(s).saving = s.saving /\ EndSetup(s).creates = s.creates
         /\ EndSetup(s).opening = s.opening /\ EndSetup(s).late = s.late
BY DEF EndSetup, Tab, Key

(* At onboarding with nothing in flight there is no wallet.                   *)
LEMMA OnboardingOK ==
  ASSUME NEW s \in Tab, TabOK(s), Screen(s) = "onboarding", s.saving = None
  PROVE  s.encrypted = None /\ s.backup = None /\ ~s.active
BY WalletSessionAssumption DEF Screen, TabOK, Tab, Key

LEMMA CreateOK ==
  ASSUME NEW s \in Tab, TabOK(s), Screen(s) = "onboarding", s.saving = None, NEW k \in Keys
  PROVE  LET t == [Begun(s) EXCEPT !.saving = k, !.creates = TRUE]
         IN  t \in Tab /\ TabOK(t) /\ t.encrypted = s.encrypted /\ t.late = s.late
<1>1. s.encrypted = None
  BY OnboardingOK
<1> QED BY <1>1, WalletSessionAssumption DEF Begun, Tab, Key, TabOK

LEMMA ImportOK ==
  ASSUME NEW s \in Tab, TabOK(s), Screen(s) = "onboarding", s.saving = None, NEW k \in Keys
  PROVE  LET t == [s EXCEPT !.saving = k, !.creates = FALSE]
         IN  t \in Tab /\ TabOK(t) /\ t.encrypted = s.encrypted /\ t.late = s.late
<1>1. s.encrypted = None /\ s.backup = None /\ ~s.active
  BY OnboardingOK
<1> QED BY <1>1, WalletSessionAssumption DEF Tab, Key, TabOK

LEMMA SavedOK ==
  ASSUME NEW s \in Tab, TabOK(s), s.saving # None
  PROVE  LET t == IF s.creates THEN BackupShown(s) ELSE s
             u == [t EXCEPT !.encrypted = s.saving, !.secret = s.saving,
                            !.saving = None, !.creates = FALSE]
         IN  u \in Tab /\ TabOK(u) /\ u.encrypted = s.saving /\ u.late = s.late
<1>1. s.backup = None /\ s.encrypted = None /\ s.saving \in Keys /\ None \notin Keys
      /\ s.opening \subseteq s.late
  BY WalletSessionAssumption DEF TabOK, Tab, Key
<1>2. CASE s.creates
  BY <1>1, <1>2 DEF BackupShown, Tab, Key, TabOK
<1>3. CASE ~s.creates
  BY <1>1, <1>3 DEF Tab, Key, TabOK
<1> QED BY <1>2, <1>3

LEMMA SaveFailedOK ==
  ASSUME NEW s \in Tab, TabOK(s), s.saving # None
  PROVE  LET t == [AfterError(s) EXCEPT !.saving = None, !.creates = FALSE]
         IN  t \in Tab /\ TabOK(t) /\ t.encrypted = s.encrypted /\ t.late = s.late
<1> DEFINE e == AfterError(s)
<1>1. /\ e \in Tab /\ e.encrypted = s.encrypted /\ e.secret = s.secret /\ e.active = FALSE
      /\ e.backup = None /\ e.opening = s.opening /\ e.late = s.late
  BY NoSetup DEF AfterError
<1> HIDE DEF e
<1>2. LET t == [e EXCEPT !.saving = None, !.creates = FALSE]
      IN  t \in Tab /\ TabOK(t) /\ t.encrypted = s.encrypted /\ t.late = s.late
  BY <1>1 DEF Tab, Key, TabOK
<1> QED BY <1>2 DEF e

LEMMA AcknowledgeOK ==
  ASSUME NEW s \in Tab, TabOK(s), s.backup # None
  PROVE  EndSetup(s) \in Tab /\ TabOK(EndSetup(s))
BY NoSetup DEF TabOK

LEMMA UnlockOK ==
  ASSUME NEW s \in Tab, TabOK(s), Screen(s) = "unlock"
  PROVE  LET t == [s EXCEPT !.opening = @ \cup {s.encrypted}]
         IN  t \in Tab /\ TabOK(t) /\ t.encrypted = s.encrypted /\ t.late = s.late
<1>1. s.encrypted \in Keys
  BY DEF Screen, Tab, Key
<1> QED BY <1>1 DEF Tab, Key, TabOK

LEMMA UnlockedOK ==
  ASSUME NEW s \in Tab, TabOK(s), NEW k \in s.opening
  PROVE  /\ LET t == [s EXCEPT !.opening = @ \ {k}, !.secret = k]
            IN  t \in Tab /\ TabOK(t) /\ t.encrypted = s.encrypted /\ t.late = s.late
         /\ LET t == [s EXCEPT !.opening = @ \ {k}]
            IN  t \in Tab /\ TabOK(t) /\ t.encrypted = s.encrypted /\ t.late = s.late
<1>1. k \in Keys /\ k # None /\ k \in {s.encrypted} \cup s.late
  BY WalletSessionAssumption DEF TabOK, Tab
<1>2. LET t == [s EXCEPT !.opening = @ \ {k}, !.secret = k]
      IN  t \in Tab /\ TabOK(t) /\ t.encrypted = s.encrypted /\ t.late = s.late
  BY <1>1 DEF TabOK, Tab, Key
<1>3. LET t == [s EXCEPT !.opening = @ \ {k}]
      IN  t \in Tab /\ TabOK(t) /\ t.encrypted = s.encrypted /\ t.late = s.late
  BY <1>1 DEF TabOK, Tab, Key
<1> QED BY <1>2, <1>3

(* Locking ends a setup whose secret was on screen.                           *)
LEMMA WithoutSecretOK ==
  ASSUME NEW s \in Tab, TabOK(s)
  PROVE  LET t == WithoutSecret(s)
         IN  t \in Tab /\ TabOK(t) /\ t.encrypted = s.encrypted /\ t.secret = None
             /\ t.saving = s.saving /\ t.opening = s.opening /\ t.late = s.late
             /\ t.backup = None
<1> DEFINE l == [s EXCEPT !.secret = None]
<1>1. /\ l \in Tab /\ l.encrypted = s.encrypted /\ l.secret = None /\ l.active = s.active
      /\ l.backup = s.backup /\ l.saving = s.saving /\ l.creates = s.creates
      /\ l.opening = s.opening /\ l.late = s.late
  BY DEF Tab, Key
<1>2. CASE s.backup # None
  <2>1. WithoutSecret(s) = [l EXCEPT !.active = FALSE, !.backup = None]
    BY <1>2 DEF WithoutSecret, EndSetup, TabOK
  <2>2. s.saving = None /\ ~s.creates
    BY <1>2 DEF TabOK
  <2> HIDE DEF l
  <2>3. LET t == [l EXCEPT !.active = FALSE, !.backup = None]
        IN  t \in Tab /\ TabOK(t) /\ t.encrypted = s.encrypted /\ t.secret = None
            /\ t.saving = s.saving /\ t.opening = s.opening /\ t.late = s.late
            /\ t.backup = None
    BY <1>1, <2>2 DEF Tab, Key, TabOK
  <2> QED BY <2>1, <2>3
<1>3. CASE s.backup = None
  <2>1. WithoutSecret(s) = l
    BY <1>3 DEF WithoutSecret
  <2> HIDE DEF l
  <2> QED BY <1>1, <1>3, <2>1 DEF TabOK
<1> QED BY <1>2, <1>3

(* Removal waits for no answer: what is being decrypted is now late.          *)
LEMMA RemovedOK ==
  ASSUME NEW s \in Tab, TabOK(s), Screen(s) \in {"unlock", "wallet"}
  PROVE  /\ Removed(s) \in Tab /\ TabOK(Removed(s)) /\ Removed(s).encrypted = None
         /\ Removed(s).secret = None
<1>1. s.encrypted # None /\ s.saving = None /\ ~s.active
  BY DEF Screen, TabOK, Tab, Key
<1> DEFINE t == WithoutSecret(s)
<1>2. /\ t \in Tab /\ TabOK(t) /\ t.secret = None /\ t.saving = None /\ t.backup = None
      /\ t.opening = s.opening /\ t.late = s.late
  BY <1>1, WithoutSecretOK
<1> HIDE DEF t
<1>3. LET u == [t EXCEPT !.encrypted = None, !.late = @ \cup s.opening]
      IN  u \in Tab /\ TabOK(u) /\ u.encrypted = None /\ u.secret = None
  BY <1>2 DEF Tab, Key, TabOK
<1> QED BY <1>3 DEF Removed, t

-----------------------------------------------------------------------------
(* A step gives one tab a proper next state. It either writes the slot and    *)
(* leaves the tab with what it wrote, or rereads it, or touches neither. The  *)
(* wallet of an open tab changes only where there was none, and what was      *)
(* removed late is remembered while the tab is open.                          *)
TabStep(w, s) ==
  /\ s \in Tab /\ TabOK(s) /\ tab' = [tab EXCEPT ![w] = s]
  /\ \/ s.encrypted = stored'
     \/ stored' = stored /\ s.encrypted = tab[w].encrypted
  /\ \/ s.secret = None
     \/ s.late = tab[w].late /\ tab[w].encrypted \in {None, s.encrypted}
  /\ stored' \in Key /\ written' \subseteq Keys /\ made' \subseteq Keys /\ kept' \subseteq Keys

LEMMA StepShape ==
  ASSUME IInv, NEW w \in Tabs, Step(w)
  PROVE  \E s \in Tab : TabStep(w, s)
<1> DEFINE t == tab[w]
<1>0. /\ t \in Tab /\ TabOK(t) /\ stored \in Key /\ None \notin Keys
      /\ written \subseteq Keys /\ made \subseteq Keys /\ kept \subseteq Keys
  BY WalletSessionAssumption DEF IInv, TypeOK, Tab, Key
<1>1. ASSUME NEW k \in Keys, Create(w, k) PROVE \E s \in Tab : TabStep(w, s)
  BY <1>0, <1>1, CreateOK DEF Create, Set, TabStep
<1>2. ASSUME NEW k \in Keys, Import(w, k) PROVE \E s \in Tab : TabStep(w, s)
  BY <1>0, <1>2, ImportOK DEF Import, Set, TabStep
<1>3. ASSUME Saved(w) PROVE \E s \in Tab : TabStep(w, s)
  <2> DEFINE b == IF t.creates THEN BackupShown(t) ELSE t
             u == [b EXCEPT !.encrypted = t.saving, !.secret = t.saving,
                            !.saving = None, !.creates = FALSE]
  <2>1. u \in Tab /\ TabOK(u) /\ u.encrypted = t.saving /\ u.late = t.late
    BY <1>0, <1>3, SavedOK DEF Saved
  <2>2. t.saving \in Keys /\ t.encrypted = None
    BY <1>0, <1>3 DEF Saved, Tab, Key, TabOK
  <2>3. /\ tab' = [tab EXCEPT ![w] = u] /\ stored' = t.saving /\ kept' = kept \cup {t.saving}
        /\ UNCHANGED <<written, made>>
    BY <1>3 DEF Saved, Set
  <2> HIDE DEF u
  <2> QED BY <1>0, <2>1, <2>2, <2>3 DEF TabStep, Key
<1>4. ASSUME SaveFailed(w) PROVE \E s \in Tab : TabStep(w, s)
  BY <1>0, <1>4, SaveFailedOK DEF SaveFailed, Set, TabStep
<1>5. ASSUME Acknowledge(w) PROVE \E s \in Tab : TabStep(w, s)
  <2>1. t.backup # None /\ t.backup \in Keys
    BY <1>0, <1>5 DEF Acknowledge, Screen, Tab, Key
  <2> QED BY <1>0, <1>5, <2>1, AcknowledgeOK, NoSetup DEF Acknowledge, Set, TabStep
<1>6. ASSUME Unlock(w) PROVE \E s \in Tab : TabStep(w, s)
  BY <1>0, <1>6, UnlockOK DEF Unlock, Set, TabStep
<1>7. ASSUME NEW k \in Keys, Unlocked(w, k) \/ WrongPassword(w, k) PROVE \E s \in Tab : TabStep(w, s)
  BY <1>0, <1>7, UnlockedOK DEF Unlocked, WrongPassword, Set, TabStep
<1>8. ASSUME Lock(w) PROVE \E s \in Tab : TabStep(w, s)
  BY <1>0, <1>8, WithoutSecretOK DEF Lock, Set, TabStep
<1>9. ASSUME Remove(w) PROVE \E s \in Tab : TabStep(w, s)
  BY <1>0, <1>9, RemovedOK DEF Remove, Set, TabStep, Key
<1>10. ASSUME Reload(w) PROVE \E s \in Tab : TabStep(w, s)
  <2>1. Opened(stored).encrypted = stored /\ Opened(stored).secret = None
    BY DEF Opened
  <2> QED BY <1>0, <1>10, <2>1, OpenedOK DEF Reload, Set, TabStep
<1> QED BY <1>1, <1>2, <1>3, <1>4, <1>5, <1>6, <1>7, <1>8, <1>9, <1>10 DEF Step

LEMMA InitIInv == Init => IInv
<1> SUFFICES ASSUME Init PROVE IInv OBVIOUS
<1>1. Opened(None) \in Tab /\ TabOK(Opened(None))
  BY OpenedOK DEF Key
<1>2. \A w \in Tabs : tab[w] = Opened(None)
  BY DEF Init
<1>3. TypeOK
  BY <1>1, WalletSessionAssumption DEF Init, TypeOK, Tab, Key, TabOK
<1> QED BY <1>1, <1>2, <1>3 DEF IInv

LEMMA NextIInv ==
  ASSUME IInv, [Next]_vars
  PROVE  IInv'
<1>1. CASE UNCHANGED vars
  BY <1>1 DEF vars, IInv, TypeOK
<1>2. ASSUME NEW w \in Tabs, Step(w) PROVE IInv'
  <2>1. PICK s \in Tab : TabStep(w, s)
    BY <1>2, StepShape
  <2>2. tab \in [Tabs -> Tab]
    BY DEF IInv, TypeOK, Tab, Key
  <2>3. tab' \in [Tabs -> Tab] /\ \A v \in Tabs : TabOK(tab'[v])
    BY <2>1, <2>2 DEF TabStep, IInv
  <2>4. \A v \in Tabs : tab'[v].creates => tab'[v].active /\ tab'[v].saving # None
    BY <2>3 DEF TabOK
  <2>5. TypeOK'
    BY <2>1, <2>3, <2>4 DEF TabStep, TypeOK, Tab, Key
  <2> QED BY <2>3, <2>5 DEF IInv
<1> QED BY <1>1, <1>2 DEF Next

-----------------------------------------------------------------------------
(* Every tab is in one of the states TabOK describes.                         *)
THEOREM InductiveInvariant == Spec => []IInv
<1>1. Init => IInv BY InitIInv
<1>2. IInv /\ [Next]_vars => IInv' BY NextIInv
<1> QED BY <1>1, <1>2, PTL DEF Spec

(* Setup is active only while a key is made or its backup is on screen.       *)
THEOREM SetupEnds == Spec => []SetupHasReason
<1>1. IInv => SetupHasReason BY DEF IInv, TabOK, SetupHasReason
<1> QED BY <1>1, InductiveInvariant, PTL

(* No tab that is locked shows a secret, and none shows another wallet's.     *)
THEOREM SecretLeavesScreen == Spec => []LockedShowsNothing
<1>1. IInv => LockedShowsNothing BY DEF IInv, TabOK, LockedShowsNothing
<1> QED BY <1>1, InductiveInvariant, PTL

(* The key in the memory of a tab is the key of the wallet it knows, in any   *)
(* number of tabs that create, import, unlock and remove at the same time,    *)
(* but for a key removed from that very tab while its password was checked.   *)
THEOREM SignerIsWallet == Spec => []SecretOfWallet
<1>1. IInv => SecretOfWallet BY DEF IInv, TabOK, SecretOfWallet
<1> QED BY <1>1, InductiveInvariant, PTL

(* One tab knows what is stored, so it makes no key over another.             *)
SlotKnown == \A w \in Tabs : tab[w].encrypted = stored
RInv == SlotKnown /\ KeyRecoverable

LEMMA NextRInv ==
  ASSUME \A v, w \in Tabs : v = w, IInv, RInv, [Next]_vars
  PROVE  RInv'
<1>1. CASE UNCHANGED vars
  BY <1>1 DEF vars, RInv, SlotKnown, KeyRecoverable
<1>2. ASSUME NEW w \in Tabs, Step(w) PROVE RInv'
  <2>1. PICK s \in Tab : TabStep(w, s)
    BY <1>2, StepShape
  <2>2. tab \in [Tabs -> Tab] /\ kept \subseteq Keys /\ None \notin Keys
    BY WalletSessionAssumption DEF IInv, TypeOK, Tab, Key
  <2>3. tab'[w] = s /\ stored = tab[w].encrypted
    BY <2>1, <2>2 DEF TabStep, RInv, SlotKnown
  <2>4. SlotKnown'
    BY <2>1, <2>3 DEF TabStep, SlotKnown
  <2>5. CASE Saved(w)
    <3>1. stored = None
      BY <2>3, <2>5 DEF IInv, TabOK, Saved
    <3>2. kept \subseteq written
      BY <2>2, <3>1 DEF RInv, KeyRecoverable
    <3> QED BY <2>4, <2>5, <3>2 DEF RInv, KeyRecoverable, Saved
  <2>6. CASE Remove(w)
    BY <2>3, <2>4, <2>6 DEF RInv, KeyRecoverable, Remove, MayRemove
  <2>7. CASE ~Saved(w) /\ ~Remove(w)
    <3>1. stored' = stored /\ kept' = kept /\ written \subseteq written'
      BY <1>2, <2>7 DEF Step, Create, Import, SaveFailed, Acknowledge, Unlock, Unlocked,
                        WrongPassword, Lock, Reload
    <3> QED BY <2>4, <3>1 DEF RInv, KeyRecoverable
  <2> QED BY <2>5, <2>6, <2>7
<1> QED BY <1>1, <1>2 DEF Next

(* In one tab no key that was ever stored is lost: it is stored still, or the *)
(* user has copied it out.                                                    *)
THEOREM KeysAreKept ==
  ASSUME \A v, w \in Tabs : v = w PROVE Spec => []KeyRecoverable
<1>1. Init => RInv
  BY DEF Init, RInv, SlotKnown, KeyRecoverable, Opened
<1>2. IInv /\ RInv /\ [Next]_vars => RInv'
  BY NextRInv
<1>3. RInv => KeyRecoverable
  BY DEF RInv
<1> QED BY <1>1, <1>2, <1>3, InductiveInvariant, PTL DEF Spec

-----------------------------------------------------------------------------
(* The pages. Whose readings a tab may show: none when it is locked, else the *)
(* open wallet's, or a key's that was removed late.                           *)
Own(s) == IF Address(s) = None THEN {} ELSE ({s.encrypted} \cup s.late) \ {None}

(* What belongs in a tab that may show those of K at time t.                  *)
Readings(K, t) == {Blank} \cup [of : K, at : 0..t]
Account(K, t) ==
  [loading : BOOLEAN, activated : {"unknown", "yes", "no"}, xlm : Readings(K, t),
   history : Readings(K, t), error : BOOLEAN]
Panels(K) == [qr : {None} \cup K, link : {None} \cup K]
Calls(K, t) ==
  [what : {"summary", "history", "qr", "link"}, of : K,
   served : BOOLEAN, found : BOOLEAN, at : 0..t]

(* The account effect: one call of each kind is out, the page says so of the  *)
(* summary, and what a served call brings is no older than what is shown.     *)
CallsOK(a, C) ==
  /\ \A c, d \in C : c.what = d.what => c = d
  /\ \A c \in C : c.found => c.served
  /\ \A c \in C : c.served => \/ c.what = "summary" /\ a.xlm.at <= c.at
                              \/ c.what = "history" /\ a.history.at <= c.at
  /\ a.loading <=> \E c \in C : c.what = "summary"

(* The receive page: where it is not shown, nothing of it is left.            *)
Tidy(on, p, C) == on \/ (p = emptyPanels /\ \A c \in C : c.what \notin {"qr", "link"})

PageOK(K, on, a, p, C, t) ==
  /\ a \in Account(K, t) /\ p \in Panels(K) /\ C \subseteq Calls(K, t)
  /\ CallsOK(a, C) /\ Tidy(on, p, C)

AnyAccount == [loading : BOOLEAN, activated : {"unknown", "yes", "no"}, xlm : Reading,
               history : Reading, error : BOOLEAN]
AnyPanels == [qr : Key, link : Key]
AnyCall == [what : {"summary", "history", "qr", "link"}, of : Keys,
            served : BOOLEAN, found : BOOLEAN, at : 0..MaxTime]

PagesInv ==
  /\ IInv
  /\ now \in 0..MaxTime /\ active \subseteq Keys /\ route \in [Tabs -> {"overview", "receive"}]
  /\ account \in [Tabs -> AnyAccount] /\ receive \in [Tabs -> AnyPanels]
  /\ calls \in [Tabs -> SUBSET AnyCall]
  /\ \A w \in Tabs : PageOK(Own(tab[w]), OnReceive(w, tab[w]),
                           account[w], receive[w], calls[w], now)

LEMMA AddressTyped ==
  ASSUME IInv, NEW w \in Tabs
  PROVE  /\ tab[w] \in Tab /\ Address(tab[w]) \in Key
         /\ Children(tab[w]) => Address(tab[w]) # None
<1>1. tab[w] \in Tab BY DEF IInv, TypeOK, Tab, Key
<1>2. Address(tab[w]) \in Key BY <1>1 DEF Address, Tab
<1>3. Children(tab[w]) => Address(tab[w]) # None
  BY <1>1 DEF Children, Screen, Address, Tab, Key
<1> QED BY <1>1, <1>2, <1>3

LEMMA OwnTyped ==
  ASSUME NEW s \in Tab, TabOK(s)
  PROVE  Own(s) \subseteq Keys /\ (Address(s) # None => Address(s) \in Own(s))
BY WalletSessionAssumption DEF Own, Address, Tab, TabOK, Key

(* While a tab is open nothing it may show is lost: its wallet changes only   *)
(* where there was none, and every removal locks it.                          *)
LEMMA OwnStep ==
  ASSUME IInv, NEW w \in Tabs, NEW s \in Tab, TabStep(w, s)
  PROVE  Address(s) = None \/ Own(tab[w]) \subseteq Own(s)
BY DEF TabStep, Own, Address

LEMMA PageMono ==
  ASSUME NEW K, NEW L, K \subseteq L, NEW on, NEW a, NEW p, NEW C, NEW t,
         PageOK(K, on, a, p, C, t)
  PROVE  PageOK(L, on, a, p, C, t)
<1>1. Readings(K, t) \subseteq Readings(L, t) BY DEF Readings
<1>2. Account(K, t) \subseteq Account(L, t) BY <1>1 DEF Account
<1>3. Panels(K) \subseteq Panels(L) BY DEF Panels
<1>4. Calls(K, t) \subseteq Calls(L, t) BY DEF Calls
<1> QED BY <1>2, <1>3, <1>4 DEF PageOK

-----------------------------------------------------------------------------
(* A step that gives one tab an account, panels and calls that fit it.        *)
LEMMA PageStep ==
  ASSUME PagesInv, NEW w \in Tabs, NEW a, NEW p, NEW C,
         account' = [account EXCEPT ![w] = a], receive' = [receive EXCEPT ![w] = p],
         calls' = [calls EXCEPT ![w] = C], IInv', now' = now, active' \subseteq Keys,
         route' \in [Tabs -> {"overview", "receive"}],
         \A v \in Tabs : v # w => tab'[v] = tab[v] /\ route'[v] = route[v],
         PageOK(Own(tab'[w]), Children(tab'[w]) /\ route'[w] = "receive", a, p, C, now)
  PROVE  PagesInv'
<1>1. Own(tab'[w]) \subseteq Keys /\ now \in 0..MaxTime /\ MaxTime \in Nat
  <2>1. tab'[w] \in Tab /\ TabOK(tab'[w]) BY DEF IInv, TypeOK, Tab, Key
  <2> QED BY <2>1, OwnTyped, WalletPagesAssumption DEF PagesInv
<1> DEFINE k == Own(tab'[w])
<1>2. a \in Account(k, now) /\ p \in Panels(k) /\ C \subseteq Calls(k, now)
  BY DEF PageOK
<1> HIDE DEF k
<1>3. k \subseteq Keys /\ 0..now \subseteq 0..MaxTime BY <1>1 DEF k
<1>4. Readings(k, now) \subseteq Reading
  BY <1>1, <1>3 DEF Readings, Reading, Blank, Key
<1>5. a \in AnyAccount BY <1>2, <1>4 DEF Account, AnyAccount
<1>6. p \in AnyPanels BY <1>2, <1>3 DEF Panels, AnyPanels, Key
<1>7. C \subseteq AnyCall BY <1>2, <1>3 DEF Calls, AnyCall, Key
<1>8. /\ account' \in [Tabs -> AnyAccount] /\ receive' \in [Tabs -> AnyPanels]
      /\ calls' \in [Tabs -> SUBSET AnyCall]
  BY <1>5, <1>6, <1>7 DEF PagesInv
<1>9. ASSUME NEW v \in Tabs
      PROVE  PageOK(Own(tab[v]), OnReceive(v, tab[v]), account[v], receive[v], calls[v], now)'
  <2>1. CASE v = w
    <3>1. account'[w] = a /\ receive'[w] = p /\ calls'[w] = C BY DEF PagesInv
    <3>2. Own(tab[v])' = Own(tab'[w])
          /\ OnReceive(v, tab[v])' = (Children(tab'[w]) /\ route'[w] = "receive")
      BY <2>1 DEF Own, Address, OnReceive, Children
    <3> QED BY <2>1, <3>1, <3>2 DEF PageOK
  <2>2. CASE v # w
    <3>1. /\ account'[v] = account[v] /\ receive'[v] = receive[v] /\ calls'[v] = calls[v]
          /\ tab'[v] = tab[v] /\ route'[v] = route[v]
      BY <2>2 DEF PagesInv
    <3>2. Own(tab[v])' = Own(tab[v]) /\ OnReceive(v, tab[v])' = OnReceive(v, tab[v])
      BY <3>1 DEF Own, Address, OnReceive, Children
    <3>3. PageOK(Own(tab[v]), OnReceive(v, tab[v]), account[v], receive[v], calls[v], now)
      BY DEF PagesInv
    <3> QED BY <3>1, <3>2, <3>3 DEF PageOK
  <2> QED BY <2>1, <2>2
<1> QED BY <1>8, <1>9 DEF PagesInv

-----------------------------------------------------------------------------
LEMMA PageTyped ==
  ASSUME PagesInv, NEW w \in Tabs
  PROVE  /\ PageOK(Own(tab[w]), OnReceive(w, tab[w]), account[w], receive[w], calls[w], now)
         /\ Own(tab[w]) \subseteq Keys /\ None \notin Keys /\ now \in Nat
         /\ Address(tab[w]) # None => Address(tab[w]) \in Own(tab[w])
         /\ OnReceive(w, tab[w]) => Address(tab[w]) # None
<1>1. /\ PageOK(Own(tab[w]), OnReceive(w, tab[w]), account[w], receive[w], calls[w], now)
      /\ IInv /\ now \in Nat
  BY WalletPagesAssumption DEF PagesInv
<1>2. OnReceive(w, tab[w]) => Address(tab[w]) # None BY <1>1, AddressTyped DEF OnReceive
<1>3. tab[w] \in Tab /\ TabOK(tab[w]) BY <1>1, AddressTyped DEF IInv
<1> QED BY <1>1, <1>2, <1>3, OwnTyped, WalletSessionAssumption

(* The account effect starts over: both calls are made anew.                  *)
LEMMA LoadingOK ==
  ASSUME NEW K, NEW k \in K, NEW t \in Nat, NEW a \in Account(K, t),
         NEW C, \A c \in C : c \in Calls(K, t) /\ c.what \notin {"summary", "history"},
         \A c, d \in C : c.what = d.what => c = d,
         \A c \in C : ~c.found /\ ~c.served
  PROVE  LET D == C \cup AccountCalls(k)
         IN  Loading(a) \in Account(K, t) /\ D \subseteq Calls(K, t) /\ CallsOK(Loading(a), D)
<1> DEFINE D == C \cup AccountCalls(k)
           b == Loading(a)
<1>1. b \in Account(K, t) /\ b.loading = TRUE
  BY DEF Loading, Account
<1>2. ASSUME NEW what \in {"summary", "history", "qr", "link"}
      PROVE  /\ Call(what, k) \in Calls(K, t) /\ Call(what, k).what = what
             /\ ~Call(what, k).found /\ ~Call(what, k).served
  BY DEF Call, Calls
<1>3. /\ \A c \in AccountCalls(k) : c = Call("summary", k) \/ c = Call("history", k)
      /\ Call("summary", k) \in AccountCalls(k)
  BY DEF AccountCalls
<1> HIDE DEF b
<1>4. D \subseteq Calls(K, t) BY <1>2, <1>3
<1>5. \A c \in D : ~c.found /\ ~c.served BY <1>2, <1>3
<1>6. ASSUME NEW c \in D, NEW d \in D, c.what = d.what PROVE c = d
  <2>1. CASE c \in C /\ d \in C BY <1>6, <2>1
  <2>2. CASE c \in C /\ d \in AccountCalls(k) BY <1>2, <1>3, <1>6, <2>2
  <2>3. CASE c \in AccountCalls(k) /\ d \in C BY <1>2, <1>3, <1>6, <2>3
  <2>4. CASE c \in AccountCalls(k) /\ d \in AccountCalls(k) BY <1>2, <1>3, <1>6, <2>4
  <2> QED BY <2>1, <2>2, <2>3, <2>4
<1>7. \E c \in D : c.what = "summary" BY <1>2, <1>3
<1> HIDE DEF D
<1>8. CallsOK(b, D) BY <1>1, <1>5, <1>6, <1>7 DEF CallsOK
<1> QED BY <1>1, <1>4, <1>8 DEF b, D

(* A call of the receive page that was not out is made.                       *)
LEMMA PanelCallOK ==
  ASSUME NEW K, NEW k \in K, NEW t \in Nat, NEW a, NEW C, C \subseteq Calls(K, t),
         CallsOK(a, C), NEW what \in {"qr", "link"}, \A c \in C : c.what # what
  PROVE  LET D == C \cup {Call(what, k)} IN D \subseteq Calls(K, t) /\ CallsOK(a, D)
<1> DEFINE n == Call(what, k)
           D == C \cup {n}
<1>1. n \in Calls(K, t) /\ n.what = what /\ ~n.found /\ ~n.served
  BY DEF Call, Calls
<1> HIDE DEF n
<1>2. \A c, d \in D : c.what = d.what => c = d BY <1>1 DEF CallsOK
<1>3. \A c \in D : c.found => c.served BY <1>1 DEF CallsOK
<1>4. ASSUME NEW c \in D, c.served
      PROVE  \/ c.what = "summary" /\ a.xlm.at <= c.at
             \/ c.what = "history" /\ a.history.at <= c.at
  <2>1. c \in C BY <1>1, <1>4
  <2> QED BY <1>4, <2>1 DEF CallsOK
<1>5. a.loading <=> \E c \in D : c.what = "summary" BY <1>1 DEF CallsOK
<1>6. CallsOK(a, D) BY <1>2, <1>3, <1>4, <1>5 DEF CallsOK
<1> QED BY <1>1, <1>6 DEF n

(* Fewer calls of the receive page.                                           *)
LEMMA FewerOK ==
  ASSUME NEW a, NEW C, CallsOK(a, C), NEW D, D \subseteq C,
         \A c \in C \ D : c.what # "summary"
  PROVE  CallsOK(a, D)
BY DEF CallsOK

-----------------------------------------------------------------------------
LEMMA PagesInit == Init0 => PagesInv
<1> SUFFICES ASSUME Init0 PROVE PagesInv OBVIOUS
<1>1. /\ IInv /\ now = 0 /\ active = {} /\ MaxTime \in Nat
  BY InitIInv, WalletPagesAssumption DEF Init0
<1>2. Blank \in Reading BY <1>1 DEF Blank, Reading
<1>3. /\ account \in [Tabs -> AnyAccount] /\ receive \in [Tabs -> AnyPanels]
      /\ calls \in [Tabs -> SUBSET AnyCall] /\ route \in [Tabs -> {"overview", "receive"}]
  BY <1>2 DEF Init0, emptyAccount, emptyPanels, AnyAccount, AnyPanels, Key
<1>4. ASSUME NEW w \in Tabs
      PROVE  PageOK(Own(tab[w]), OnReceive(w, tab[w]), account[w], receive[w], calls[w], now)
  <2>1. account[w] = emptyAccount /\ receive[w] = emptyPanels /\ calls[w] = {}
    BY DEF Init0
  <2>2. emptyAccount \in Account(Own(tab[w]), now) /\ ~emptyAccount.loading
    BY DEF emptyAccount, Account, Readings
  <2>3. emptyPanels \in Panels(Own(tab[w])) BY DEF emptyPanels, Panels
  <2>4. CallsOK(emptyAccount, {}) BY <2>2 DEF CallsOK
  <2>5. Tidy(OnReceive(w, tab[w]), emptyPanels, {}) BY DEF Tidy
  <2> QED BY <2>1, <2>2, <2>3, <2>4, <2>5 DEF PageOK
<1> QED BY <1>1, <1>3, <1>4 DEF PagesInv

(* Events of the pages: the session and the ledger stay.                      *)
PageEvent(w, a, p, C) ==
  /\ account' = [account EXCEPT ![w] = a] /\ receive' = [receive EXCEPT ![w] = p]
  /\ calls' = [calls EXCEPT ![w] = C] /\ UNCHANGED <<vars, now>>

LEMMA PageEventOK ==
  ASSUME PagesInv, NEW w \in Tabs, NEW a, NEW p, NEW C, PageEvent(w, a, p, C),
         UNCHANGED <<active, route>>,
         PageOK(Own(tab[w]), OnReceive(w, tab[w]), a, p, C, now)
  PROVE  PagesInv'
<1>1. IInv' /\ tab' = tab
  BY DEF PagesInv, PageEvent, vars, IInv, TypeOK
<1>2. Own(tab'[w]) = Own(tab[w])
      /\ (Children(tab'[w]) /\ route'[w] = "receive") = OnReceive(w, tab[w])
  BY <1>1 DEF OnReceive
<1>3. PageOK(Own(tab'[w]), Children(tab'[w]) /\ route'[w] = "receive", a, p, C, now)
  BY <1>2
<1> QED BY <1>1, <1>3, PageStep DEF PagesInv, PageEvent

LEMMA RefreshOK == ASSUME PagesInv, NEW w \in Tabs, Refresh(w) PROVE PagesInv'
<1> DEFINE k == Address(tab[w])
           K == Own(tab[w])
           on == OnReceive(w, tab[w])
           C == Cancelled(calls[w], {"summary", "history"})
           D == C \cup AccountCalls(k)
           a == Loading(account[w])
<1>1. PageOK(K, on, account[w], receive[w], calls[w], now) /\ k \in K /\ now \in Nat
  BY PageTyped DEF Refresh
<1>2. PageEvent(w, a, receive[w], D) /\ UNCHANGED <<active, route>>
  BY DEF Refresh, PageEvent, ledger, PagesInv
<1>3. \A c \in C : c \in calls[w] /\ c.what \notin {"summary", "history"}
  BY DEF Cancelled
<1>4. \A c \in C : c \in Calls(K, now) /\ ~c.found /\ ~c.served
  BY <1>1, <1>3 DEF PageOK, CallsOK
<1>5. \A c, d \in C : c.what = d.what => c = d BY <1>1, <1>3 DEF PageOK, CallsOK
<1> HIDE DEF C
<1>6. account[w] \in Account(K, now) BY <1>1 DEF PageOK
<1> HIDE DEF k, K
<1>7. a \in Account(K, now) /\ D \subseteq Calls(K, now) /\ CallsOK(a, D)
  BY <1>1, <1>3, <1>4, <1>5, <1>6, LoadingOK
<1>8. Tidy(on, receive[w], D)
  <2>1. \A c \in AccountCalls(k) : c.what \in {"summary", "history"}
    BY DEF AccountCalls, Call
  <2> QED BY <1>1, <1>3, <2>1 DEF PageOK, Tidy
<1> HIDE DEF a, D, on
<1>9. PageOK(K, on, a, receive[w], D, now) BY <1>1, <1>7, <1>8 DEF PageOK
<1> QED BY <1>2, <1>9, PageEventOK DEF K, on

Answer(c, f, t) == [c EXCEPT !.served = TRUE, !.found = f, !.at = t]

LEMMA ServedCall ==
  ASSUME NEW k, NEW t \in Nat, NEW c \in Calls(k, t), NEW f \in BOOLEAN
  PROVE  /\ Answer(c, f, t) \in Calls(k, t) /\ Answer(c, f, t).what = c.what
         /\ Answer(c, f, t).served /\ Answer(c, f, t).at = t
<1> DEFINE m == [c EXCEPT !.served = TRUE, !.found = f]
<1>1. m \in Calls(k, t) /\ m.what = c.what /\ m.served BY DEF Calls
<1> DEFINE T == 0..t
<1> HIDE DEF m
<1>2. t \in T /\ m \in [what : {"summary", "history", "qr", "link"}, of : k,
                       served : BOOLEAN, found : BOOLEAN, at : T]
  BY <1>1 DEF Calls
<1> HIDE DEF T
<1>3. LET n == [m EXCEPT !.at = t]
      IN  /\ n \in [what : {"summary", "history", "qr", "link"}, of : k,
                  served : BOOLEAN, found : BOOLEAN, at : T]
          /\ n.what = m.what /\ n.served = m.served /\ n.at = t
  BY <1>2
<1> QED BY <1>1, <1>3 DEF m, T, Calls, Answer

LEMMA ServeOK ==
  ASSUME PagesInv, NEW w \in Tabs, NEW c \in calls[w], Serve(w, c) PROVE PagesInv'
<1> DEFINE k == Own(tab[w])
           on == OnReceive(w, tab[w])
           f == Found(c.of)
           n == Answer(c, f, now)
           C == calls[w]
           D == (C \ {c}) \cup {n}
           a == account[w]
<1>1. PageOK(k, on, a, receive[w], C, now) /\ now \in Nat BY PageTyped
<1>2. PageEvent(w, a, receive[w], D) /\ UNCHANGED <<active, route>>
  BY DEF Serve, PageEvent, ledger, PagesInv, Answer
<1>3. c \in Calls(k, now) /\ c.what \in {"summary", "history"} /\ f \in BOOLEAN
  BY <1>1 DEF PageOK, Serve, Found
<1> HIDE DEF k, f
<1>4. n \in Calls(k, now) /\ n.what = c.what /\ n.served /\ n.at = now
  BY <1>1, <1>3, ServedCall
<1>5. a.xlm.at <= now /\ a.history.at <= now
  <2>1. a \in Account(k, now) BY <1>1 DEF PageOK
  <2>2. a.xlm \in Readings(k, now) /\ a.history \in Readings(k, now) BY <2>1 DEF Account
  <2> QED BY <1>1, <2>2 DEF Readings, Blank
<1>6. CallsOK(a, C) /\ Tidy(on, receive[w], C) /\ C \subseteq Calls(k, now)
  BY <1>1 DEF PageOK
<1> HIDE DEF n, C
<1>7. CallsOK(a, D)
  <2>1. \A x, y \in D : x.what = y.what => x = y BY <1>4, <1>6 DEF CallsOK, C
  <2>2. \A x \in D : x.found => x.served BY <1>4, <1>6 DEF CallsOK
  <2>3. ASSUME NEW x \in D, x.served
        PROVE  \/ x.what = "summary" /\ a.xlm.at <= x.at
               \/ x.what = "history" /\ a.history.at <= x.at
    <3>1. CASE x = n BY <1>3, <1>4, <1>5, <3>1
    <3>2. CASE x \in C BY <1>6, <2>3, <3>2 DEF CallsOK
    <3> QED BY <3>1, <3>2
  <2>4. a.loading <=> \E x \in D : x.what = "summary" BY <1>4, <1>6 DEF CallsOK, C
  <2> QED BY <2>1, <2>2, <2>3, <2>4 DEF CallsOK
<1>8. Tidy(on, receive[w], D) BY <1>3, <1>4, <1>6 DEF Tidy
<1>9. D \subseteq Calls(k, now) BY <1>4, <1>6
<1> HIDE DEF D
<1>10. PageOK(k, on, a, receive[w], D, now) BY <1>1, <1>7, <1>8, <1>9 DEF PageOK
<1> QED BY <1>2, <1>10, PageEventOK DEF k

(* An answer: its call is gone, and what it leaves of the account fits the    *)
(* calls that are still out.                                                  *)
LEMMA ArrivedOK ==
  ASSUME PagesInv, NEW w \in Tabs, NEW c \in calls[w], NEW a, Arrived(w, c, a),
         c.what \in {"summary", "history"}, a \in Account(Own(tab[w]), now),
         a.loading <=> (account[w].loading /\ c.what # "summary"),
         c.what # "summary" => a.xlm = account[w].xlm,
         c.what # "history" => a.history = account[w].history
  PROVE  PagesInv'
<1> DEFINE k == Own(tab[w])
           on == OnReceive(w, tab[w])
           C == calls[w]
           D == C \ {c}
<1>1. PageOK(k, on, account[w], receive[w], C, now) BY PageTyped
<1>2. PageEvent(w, a, receive[w], D) /\ UNCHANGED <<active, route>>
  BY DEF Arrived, PageEvent, ledger, PagesInv
<1>3. CallsOK(account[w], C) /\ Tidy(on, receive[w], C) /\ C \subseteq Calls(k, now)
  BY <1>1 DEF PageOK
<1>4. \A d \in D : d \in C /\ d.what # c.what BY <1>3 DEF CallsOK
<1>5. CallsOK(a, D)
  <2>1. \A x, y \in D : x.what = y.what => x = y BY <1>3 DEF CallsOK
  <2>2. \A x \in D : x.found => x.served BY <1>3 DEF CallsOK
  <2>3. ASSUME NEW x \in D, x.served
        PROVE  \/ x.what = "summary" /\ a.xlm.at <= x.at
               \/ x.what = "history" /\ a.history.at <= x.at
    BY <1>3, <1>4, <2>3 DEF CallsOK
  <2>4. a.loading <=> \E x \in D : x.what = "summary" BY <1>3, <1>4 DEF CallsOK
  <2> QED BY <2>1, <2>2, <2>3, <2>4 DEF CallsOK
<1>6. Tidy(on, receive[w], D) BY <1>3 DEF Tidy
<1>7. PageOK(k, on, a, receive[w], D, now) BY <1>1, <1>3, <1>5, <1>6 DEF PageOK
<1> QED BY <1>2, <1>7, PageEventOK

LEMMA AnswersOK ==
  ASSUME PagesInv, NEW w \in Tabs, NEW c \in calls[w],
         \/ SummaryLoaded(w, c) \/ HistoryLoaded(w, c)
         \/ SummaryFailed(w, c) \/ HistoryFailed(w, c)
  PROVE  PagesInv'
<1> DEFINE k == Own(tab[w])
           o == account[w]
<1>1. o \in Account(k, now) /\ c \in Calls(k, now) /\ Blank \in Readings(k, now)
  BY PageTyped DEF PageOK, Readings
<1>2. [of |-> c.of, at |-> c.at] \in Readings(k, now) BY <1>1 DEF Calls, Readings
<1> DEFINE r == [of |-> c.of, at |-> c.at]
<1> HIDE DEF k, r
<1>3. CASE SummaryLoaded(w, c)
  <2> DEFINE a == [o EXCEPT !.loading = FALSE, !.activated = "yes", !.xlm = r]
  <2>1. a \in Account(k, now) /\ ~a.loading /\ a.history = o.history
    BY <1>1, <1>2 DEF Account, r
  <2>2. c.what = "summary" /\ Arrived(w, c, a) BY <1>3 DEF SummaryLoaded, r
  <2> HIDE DEF a
  <2> QED BY <2>1, <2>2, ArrivedOK DEF k
<1>4. CASE HistoryLoaded(w, c)
  <2> DEFINE a == [o EXCEPT !.history = r]
  <2>1. a \in Account(k, now) /\ a.loading = o.loading /\ a.xlm = o.xlm
    BY <1>1, <1>2 DEF Account, r
  <2>2. c.what = "history" /\ Arrived(w, c, a) BY <1>4 DEF HistoryLoaded, r
  <2> HIDE DEF a
  <2> QED BY <2>1, <2>2, ArrivedOK DEF k
<1>5. CASE SummaryFailed(w, c)
  <2> DEFINE a == [o EXCEPT !.loading = FALSE, !.activated = "no", !.error = TRUE]
  <2>1. a \in Account(k, now) /\ ~a.loading /\ a.history = o.history
    BY <1>1 DEF Account
  <2>2. c.what = "summary" /\ Arrived(w, c, a) BY <1>5 DEF SummaryFailed
  <2> HIDE DEF a
  <2> QED BY <2>1, <2>2, ArrivedOK DEF k
<1>6. CASE HistoryFailed(w, c)
  <2> DEFINE a == [o EXCEPT !.history = Blank]
  <2>1. a \in Account(k, now) /\ a.loading = o.loading /\ a.xlm = o.xlm
    BY <1>1 DEF Account
  <2>2. c.what = "history" /\ Arrived(w, c, a) BY <1>6 DEF HistoryFailed
  <2> HIDE DEF a
  <2> QED BY <2>1, <2>2, ArrivedOK DEF k
<1> QED BY <1>3, <1>4, <1>5, <1>6

-----------------------------------------------------------------------------
LEMMA CreateLinkOK == ASSUME PagesInv, NEW w \in Tabs, CreateLink(w) PROVE PagesInv'
<1> DEFINE k == Address(tab[w])
           K == Own(tab[w])
           on == OnReceive(w, tab[w])
           D == calls[w] \cup {Call("link", k)}
<1>1. PageOK(K, on, account[w], receive[w], calls[w], now) /\ on /\ k \in K
      /\ now \in Nat
  BY PageTyped DEF CreateLink
<1>2. PageEvent(w, account[w], receive[w], D) /\ UNCHANGED <<active, route>>
  BY DEF CreateLink, PageEvent, ledger, PagesInv
<1>3. CallsOK(account[w], calls[w]) /\ calls[w] \subseteq Calls(K, now) BY <1>1 DEF PageOK
<1>4. \A c \in calls[w] : c.what # "link" BY DEF CreateLink
<1> HIDE DEF k, K, on
<1>5. D \subseteq Calls(K, now) /\ CallsOK(account[w], D)
  BY <1>1, <1>3, <1>4, PanelCallOK
<1>6. PageOK(K, on, account[w], receive[w], D, now) BY <1>1, <1>5 DEF PageOK, Tidy
<1> HIDE DEF D
<1> QED BY <1>2, <1>6, PageEventOK DEF K, on

LEMMA PanelAnsweredOK ==
  ASSUME PagesInv, NEW w \in Tabs, NEW c \in calls[w], PanelAnswered(w, c) PROVE PagesInv'
<1> DEFINE k == Own(tab[w])
           on == OnReceive(w, tab[w])
           D == calls[w] \ {c}
           p == receive'[w]
<1>1. PageOK(k, on, account[w], receive[w], calls[w], now) BY PageTyped
<1>2. /\ c \in Calls(k, now) /\ receive[w] \in Panels(k) /\ CallsOK(account[w], calls[w])
      /\ Tidy(on, receive[w], calls[w]) /\ c.what \in {"qr", "link"}
  BY <1>1 DEF PageOK, PanelAnswered
<1>3. on BY <1>2 DEF Tidy
<1>4. c.of \in k BY <1>2 DEF Calls
<1>5. p \in Panels(k) /\ receive' = [receive EXCEPT ![w] = p]
  <2>1. receive \in [Tabs -> AnyPanels] BY DEF PagesInv
  <2>2. CASE c.what = "qr" /\ receive' = [receive EXCEPT ![w]["qr"] = c.of]
    <3>1. [receive[w] EXCEPT !["qr"] = c.of] \in Panels(k) BY <1>2, <1>4 DEF Panels
    <3> QED BY <2>1, <2>2, <3>1
  <2>3. CASE c.what = "link" /\ receive' = [receive EXCEPT ![w]["link"] = c.of]
    <3>1. [receive[w] EXCEPT !["link"] = c.of] \in Panels(k) BY <1>2, <1>4 DEF Panels
    <3> QED BY <2>1, <2>3, <3>1
  <2>4. CASE receive' = [receive EXCEPT ![w].qr = None]
    <3>1. [receive[w] EXCEPT !.qr = None] \in Panels(k) BY <1>2 DEF Panels
    <3> QED BY <2>1, <2>4, <3>1
  <2>5. CASE UNCHANGED receive BY <1>2, <2>1, <2>5
  <2> QED BY <1>2, <2>2, <2>3, <2>4, <2>5 DEF PanelAnswered
<1>6. PageEvent(w, account[w], p, D) /\ UNCHANGED <<active, route>>
  BY <1>5 DEF PanelAnswered, PageEvent, ledger, PagesInv
<1>7. CallsOK(account[w], D)
  <2>1. \A d \in calls[w] \ D : d.what # "summary" BY <1>2
  <2> QED BY <1>2, <2>1, FewerOK
<1> HIDE DEF p
<1>8. PageOK(k, on, account[w], p, D, now) BY <1>1, <1>3, <1>5, <1>7 DEF PageOK, Tidy
<1> QED BY <1>6, <1>8, PageEventOK

LEMMA AnotherLinkOK == ASSUME PagesInv, NEW w \in Tabs, AnotherLink(w) PROVE PagesInv'
<1> DEFINE k == Own(tab[w])
           on == OnReceive(w, tab[w])
           p == [receive[w] EXCEPT !.link = None]
<1>1. PageOK(k, on, account[w], receive[w], calls[w], now) BY PageTyped
<1>2. p \in Panels(k) BY <1>1 DEF PageOK, Panels
<1>3. PageEvent(w, account[w], p, calls[w]) /\ UNCHANGED <<active, route>>
  BY DEF AnotherLink, PageEvent, ledger, PagesInv
<1>4. on BY DEF AnotherLink
<1> HIDE DEF p, on
<1>5. PageOK(k, on, account[w], p, calls[w], now) BY <1>1, <1>2, <1>4 DEF PageOK, Tidy
<1> QED BY <1>3, <1>5, PageEventOK DEF on

LEMMA FundOK == ASSUME PagesInv, NEW w \in Tabs, Fund(w) PROVE PagesInv'
<1>1. Address(tab[w]) \in Keys
  BY AddressTyped DEF PagesInv, Fund, Key
<1>2. UNCHANGED <<vars, pages, now>> /\ active' \subseteq Keys
  BY <1>1 DEF Fund, PagesInv
<1>3. IInv' BY <1>2 DEF PagesInv, vars, IInv, TypeOK
<1> QED BY <1>2, <1>3 DEF PagesInv, pages, vars, OnReceive

(* Ledgers close: what was read so far was read before.                       *)
LEMMA CloseOK == ASSUME PagesInv, Close PROVE PagesInv'
<1>1. /\ now \in Nat /\ now' = now + 1 /\ now' \in 0..MaxTime /\ UNCHANGED <<vars, pages>>
  BY WalletPagesAssumption DEF PagesInv, Close
<1>2. active' \subseteq Keys
  BY WalletSessionAssumption DEF Close, PagesInv, IInv, TypeOK
<1>3. IInv' BY <1>1 DEF PagesInv, vars, IInv, TypeOK
<1>4. 0..now \subseteq 0..now' BY <1>1
<1>5. ASSUME NEW w \in Tabs
      PROVE  PageOK(Own(tab[w]), OnReceive(w, tab[w]), account[w], receive[w], calls[w], now)'
  <2> DEFINE k == Own(tab[w])
  <2>1. PageOK(k, OnReceive(w, tab[w]), account[w], receive[w], calls[w], now) BY PageTyped
  <2>2. Readings(k, now) \subseteq Readings(k, now') BY <1>4 DEF Readings
  <2>3. Account(k, now) \subseteq Account(k, now') BY <2>2 DEF Account
  <2>4. Calls(k, now) \subseteq Calls(k, now') BY <1>4 DEF Calls
  <2> HIDE DEF k
  <2>5. PageOK(k, OnReceive(w, tab[w]), account[w], receive[w], calls[w], now')
    BY <2>1, <2>3, <2>4 DEF PageOK
  <2>6. UNCHANGED <<tab, account, receive, calls, route>> BY <1>1 DEF vars, pages
  <2> QED BY <2>5, <2>6 DEF k, OnReceive
<1> QED BY <1>1, <1>2, <1>3, <1>5 DEF PagesInv, pages

-----------------------------------------------------------------------------
(* What the receive page leaves when it is left, and asks for when opened.    *)
LEMMA ReceiveOK ==
  ASSUME NEW K, NEW k, NEW t \in Nat, NEW a, NEW C, C \subseteq Calls(K, t),
         CallsOK(a, C), NEW on \in BOOLEAN, on => k \in K
  PROVE  LET D == Cancelled(C, {"qr", "link"})
                    \cup (IF on THEN {Call("qr", k)} ELSE {})
         IN  D \subseteq Calls(K, t) /\ CallsOK(a, D) /\ Tidy(on, emptyPanels, D)
<1> DEFINE B == Cancelled(C, {"qr", "link"})
           D == B \cup (IF on THEN {Call("qr", k)} ELSE {})
<1>1. /\ B \subseteq C /\ B \subseteq Calls(K, t)
      /\ \A c \in B : c.what \notin {"qr", "link"}
      /\ \A c \in C \ B : c.what # "summary"
  BY DEF Cancelled
<1> HIDE DEF B
<1>2. CallsOK(a, B) BY <1>1, FewerOK
<1>3. CASE on
  <2>1. k \in K BY <1>3
  <2>2. D = B \cup {Call("qr", k)} BY <1>3
  <2>3. D \subseteq Calls(K, t) /\ CallsOK(a, D)
    BY <1>1, <1>2, <2>1, <2>2, PanelCallOK
  <2> QED BY <1>3, <2>3 DEF Tidy, B
<1>4. CASE ~on
  <2>1. D = B BY <1>4
  <2> HIDE DEF D
  <2> QED BY <1>1, <1>2, <2>1 DEF Tidy, B, D
<1> QED BY <1>3, <1>4

LEMMA NavigateOK ==
  ASSUME PagesInv, NEW w \in Tabs, NEW r \in {"overview", "receive"}, Navigate(w, r)
  PROVE  PagesInv'
<1> DEFINE k == Address(tab[w])
           K == Own(tab[w])
           on == r = "receive"
           D == Cancelled(calls[w], {"qr", "link"}) \cup (IF on THEN {Call("qr", k)} ELSE {})
<1>1. /\ PageOK(K, OnReceive(w, tab[w]), account[w], receive[w], calls[w], now)
      /\ now \in Nat /\ k \in K
  BY PageTyped, AddressTyped DEF Navigate, PagesInv
<1>2. account[w] \in Account(K, now) /\ calls[w] \subseteq Calls(K, now)
      /\ CallsOK(account[w], calls[w])
  BY <1>1 DEF PageOK
<1> HIDE DEF k, K
<1>3. on \in BOOLEAN OBVIOUS
<1>4. D \subseteq Calls(K, now) /\ CallsOK(account[w], D) /\ Tidy(on, emptyPanels, D)
  BY <1>1, <1>2, <1>3, ReceiveOK
<1>5. emptyPanels \in Panels(K) BY DEF emptyPanels, Panels
<1>6. PageOK(K, on, account[w], emptyPanels, D, now) BY <1>2, <1>4, <1>5 DEF PageOK
<1>7. /\ account' = [account EXCEPT ![w] = account[w]]
      /\ receive' = [receive EXCEPT ![w] = emptyPanels] /\ calls' = [calls EXCEPT ![w] = D]
      /\ route' = [route EXCEPT ![w] = r] /\ UNCHANGED <<vars, ledger>>
      /\ Children(tab[w])
  BY DEF Navigate, PagesInv, k
<1>8. IInv' /\ tab' = tab /\ now' = now /\ active' = active
  BY <1>7 DEF PagesInv, vars, ledger, IInv, TypeOK
<1>9. /\ route' \in [Tabs -> {"overview", "receive"}] /\ route'[w] = r
      /\ \A v \in Tabs : v # w => route'[v] = route[v]
  BY <1>7 DEF PagesInv
<1> HIDE DEF D
<1>10. (Children(tab'[w]) /\ route'[w] = "receive") = on BY <1>7, <1>8, <1>9
<1> HIDE DEF on
<1>11. PageOK(Own(tab'[w]), Children(tab'[w]) /\ route'[w] = "receive", account[w],
              emptyPanels, D, now)
  BY <1>6, <1>8, <1>10 DEF K
<1> QED BY <1>7, <1>8, <1>9, <1>11, PageStep DEF PagesInv

(* The effects after a step of the session that leaves the address.           *)
LEMMA SameAddress ==
  ASSUME PagesInv, NEW w \in Tabs, NEW t, Address(t) = Address(tab[w]),
         Own(tab[w]) \subseteq Own(t), OnReceive(w, t) => Address(t) \in Own(t),
         OnReceive(w, t) \in BOOLEAN
  PROVE  PageOK(Own(t), OnReceive(w, t), AccountAfter(account[w], tab[w], t),
                PanelsAfter(w, tab[w], t), CallsAfter(w, tab[w], t), now)
<1> DEFINE k == Address(t)
           K == Own(t)
           on == OnReceive(w, t)
           stayed == OnReceive(w, tab[w]) /\ on
           D == CallsAfter(w, tab[w], t)
<1>1. PageOK(K, OnReceive(w, tab[w]), account[w], receive[w], calls[w], now) /\ now \in Nat
  BY PageTyped, PageMono
<1>2. AccountAfter(account[w], tab[w], t) = account[w] BY DEF AccountAfter
<1>3. CASE stayed
  <2>1. PanelsAfter(w, tab[w], t) = receive[w] BY <1>3 DEF PanelsAfter
  <2>2. D = calls[w] BY <1>3 DEF CallsAfter
  <2> HIDE DEF D
  <2> QED BY <1>1, <1>2, <1>3, <2>1, <2>2 DEF PageOK, Tidy, D
<1>4. CASE ~stayed
  <2>1. PanelsAfter(w, tab[w], t) = emptyPanels BY <1>4 DEF PanelsAfter
  <2>2. D = Cancelled(calls[w], {"qr", "link"}) \cup (IF on THEN {Call("qr", k)} ELSE {})
    BY <1>4 DEF CallsAfter
  <2>3. /\ account[w] \in Account(K, now) /\ calls[w] \subseteq Calls(K, now)
        /\ CallsOK(account[w], calls[w])
    BY <1>1 DEF PageOK
  <2>4. emptyPanels \in Panels(K) BY DEF emptyPanels, Panels
  <2> HIDE DEF D, k, K, on
  <2>5. D \subseteq Calls(K, now) /\ CallsOK(account[w], D) /\ Tidy(on, emptyPanels, D)
    <3>1. on \in BOOLEAN /\ (on => k \in K) BY DEF on, k, K
    <3>2. now \in Nat BY <1>1
    <3>3. calls[w] \subseteq Calls(K, now) /\ CallsOK(account[w], calls[w]) BY <2>3
    <3>4. LET E == Cancelled(calls[w], {"qr", "link"}) \cup (IF on THEN {Call("qr", k)} ELSE {})
          IN  E \subseteq Calls(K, now) /\ CallsOK(account[w], E) /\ Tidy(on, emptyPanels, E)
      <4>1. CASE on = TRUE BY ONLY <3>1, <3>2, <3>3, <4>1, ReceiveOK
      <4>2. CASE on = FALSE BY ONLY <3>1, <3>2, <3>3, <4>2, ReceiveOK
      <4> QED BY ONLY <3>1, <4>1, <4>2
    <3> QED BY ONLY <2>2, <3>4
  <2>6. PageOK(K, on, account[w], emptyPanels, D, now) BY <2>3, <2>4, <2>5 DEF PageOK
  <2> QED BY <1>2, <2>1, <2>6 DEF K, on, D
<1> QED BY <1>3, <1>4

(* Locked or removed: everything is dropped.                                  *)
LEMMA NoAddress ==
  ASSUME PagesInv, NEW w \in Tabs, NEW t, Address(t) # Address(tab[w]), Address(t) = None,
         ~OnReceive(w, t)
  PROVE  PageOK(Own(t), OnReceive(w, t), AccountAfter(account[w], tab[w], t),
                PanelsAfter(w, tab[w], t), CallsAfter(w, tab[w], t), now)
<1>1. AccountAfter(account[w], tab[w], t) = emptyAccount BY DEF AccountAfter, Reset
<1>2. PanelsAfter(w, tab[w], t) = emptyPanels BY DEF PanelsAfter
<1>3. CallsAfter(w, tab[w], t) = {}
  <2>1. CallsAfter(w, tab[w], t)
          = Cancelled(Cancelled(calls[w], {"summary", "history", "qr"}), {"qr", "link"})
    BY DEF CallsAfter
  <2>2. calls[w] \subseteq Calls(Own(tab[w]), now) BY PageTyped DEF PageOK
  <2>3. \A c \in calls[w] : c.what \in {"summary", "history", "qr", "link"}
    BY <2>2 DEF Calls
  <2> QED BY <2>1, <2>3 DEF Cancelled
<1>4. emptyAccount \in Account(Own(t), now) /\ ~emptyAccount.loading
  BY DEF emptyAccount, Account, Readings
<1>5. emptyPanels \in Panels(Own(t)) BY DEF emptyPanels, Panels
<1>6. CallsOK(emptyAccount, {}) BY <1>4 DEF CallsOK
<1>7. Tidy(OnReceive(w, t), emptyPanels, {}) BY DEF Tidy
<1> QED BY <1>1, <1>2, <1>3, <1>4, <1>5, <1>6, <1>7 DEF PageOK

(* Opened, or taken over by a key that was removed late: both requests of the *)
(* account are made anew, and of the receive page only a link may be out.     *)
LEMMA MovedAddress ==
  ASSUME PagesInv, NEW w \in Tabs, NEW t, Address(t) # Address(tab[w]), Address(t) # None,
         Address(t) \in Own(t), Own(tab[w]) \subseteq Own(t), OnReceive(w, t) \in BOOLEAN
  PROVE  PageOK(Own(t), OnReceive(w, t), AccountAfter(account[w], tab[w], t),
                PanelsAfter(w, tab[w], t), CallsAfter(w, tab[w], t), now)
<1> DEFINE k == Address(t)
           K == Own(t)
           on == OnReceive(w, t)
           stayed == OnReceive(w, tab[w]) /\ on
           p == PanelsAfter(w, tab[w], t)
           b == Loading(account[w])
           A == AccountCalls(k)
           C == Cancelled(calls[w], {"summary", "history", "qr"})
           B == IF stayed THEN C ELSE Cancelled(C, {"qr", "link"})
           D == CallsAfter(w, tab[w], t)
<1>1. PageOK(K, OnReceive(w, tab[w]), account[w], receive[w], calls[w], now) /\ now \in Nat
  BY PageTyped, PageMono
<1>2. /\ account[w] \in Account(K, now) /\ receive[w] \in Panels(K)
      /\ calls[w] \subseteq Calls(K, now) /\ CallsOK(account[w], calls[w])
  BY <1>1 DEF PageOK
<1>3. AccountAfter(account[w], tab[w], t) = b BY DEF AccountAfter
<1>4. D = (B \cup A) \cup (IF on THEN {Call("qr", k)} ELSE {})
  BY DEF CallsAfter
<1>5. \A c \in B : c \in calls[w] /\ c.what \notin {"summary", "history", "qr"}
  BY DEF Cancelled
<1>6. ~stayed => \A c \in B : c.what # "link"
  BY DEF Cancelled
<1>7. p \in Panels(K) /\ (~stayed => p = emptyPanels)
  BY <1>2 DEF PanelsAfter, emptyPanels, Panels
<1> HIDE DEF B
<1>8. /\ \A c \in B : c \in Calls(K, now) /\ ~c.served /\ ~c.found
      /\ \A c, d \in B : c.what = d.what => c = d
  BY <1>2, <1>5 DEF CallsOK
<1>9. \A c \in A : c.what \in {"summary", "history"} BY DEF AccountCalls, Call
<1>10. k \in K OBVIOUS
<1> HIDE DEF b, A, D, k, K, on, p
<1>11. b \in Account(K, now) /\ B \cup A \subseteq Calls(K, now) /\ CallsOK(b, B \cup A)
  <2>1. B \cup AccountCalls(k) = B \cup A BY DEF A
  <2>2. LET E == B \cup AccountCalls(k)
        IN  /\ Loading(account[w]) \in Account(K, now) /\ E \subseteq Calls(K, now)
            /\ CallsOK(Loading(account[w]), E)
    BY <1>1, <1>2, <1>5, <1>8, <1>10, LoadingOK
  <2> QED BY <2>1, <2>2 DEF b
<1> DEFINE E == B \cup A
<1>12. \A c \in E : c.what # "qr" BY <1>5, <1>9
<1>13. D \subseteq Calls(K, now) /\ CallsOK(b, D) /\ Tidy(on, p, D)
  <2>1. CASE on
    <3>1. D = E \cup {Call("qr", k)} BY <1>4, <2>1
    <3>2. E \subseteq Calls(K, now) /\ CallsOK(b, E) BY <1>11
    <3> HIDE DEF E
    <3> QED BY <1>1, <1>10, <1>12, <2>1, <3>1, <3>2, PanelCallOK DEF Tidy
  <2>2. CASE ~on
    <3>1. D = E /\ p = emptyPanels BY <1>4, <1>7, <2>2
    <3>2. \A c \in E : c.what \notin {"qr", "link"} BY <1>5, <1>6, <1>9, <2>2
    <3> QED BY <1>11, <3>1, <3>2 DEF Tidy
  <2> QED BY <2>1, <2>2
<1> QED BY <1>3, <1>7, <1>11, <1>13 DEF PageOK, K, on, D, p

LEMMA SessionOK ==
  ASSUME PagesInv, NEW w \in Tabs, Session(w) PROVE PagesInv'
<1> DEFINE t == tab'[w]
<1>1. /\ Step(w) /\ UNCHANGED <<route, now, active>>
      /\ account' = [account EXCEPT ![w] = AccountAfter(account[w], tab[w], t)]
      /\ receive' = [receive EXCEPT ![w] = PanelsAfter(w, tab[w], t)]
      /\ calls' = [calls EXCEPT ![w] = CallsAfter(w, tab[w], t)]
  BY DEF Session, ledger
<1>2. PICK s \in Tab : TabStep(w, s) BY <1>1, StepShape DEF PagesInv
<1>3. IInv' BY <1>1, NextIInv DEF PagesInv, Next
<1>4. \A v \in Tabs : v # w => tab'[v] = tab[v] BY <1>2 DEF TabStep, PagesInv, IInv, TypeOK
<1>5. t \in Tab /\ TabOK(t) BY <1>3 DEF IInv, TypeOK, Tab, Key
<1>6. Children(t) => Address(t) # None
  BY <1>5 DEF Children, Screen, Address, Tab, Key
<1>7. Address(t) = None \/ Own(tab[w]) \subseteq Own(t)
  <2>1. t = s BY <1>2 DEF TabStep, PagesInv, IInv, TypeOK
  <2> QED BY <1>2, <2>1, OwnStep DEF PagesInv
<1>8. Address(t) # None => Address(t) \in Own(t) BY <1>5, OwnTyped
<1> HIDE DEF t
<1>11. PageOK(Own(t), OnReceive(w, t), AccountAfter(account[w], tab[w], t),
             PanelsAfter(w, tab[w], t), CallsAfter(w, tab[w], t), now)
  <2>1. OnReceive(w, t) \in BOOLEAN BY DEF OnReceive, Children
  <2>2. OnReceive(w, t) => Address(t) # None BY <1>6 DEF OnReceive
  <2>3. CASE Address(t) = Address(tab[w])
    <3>1. Own(tab[w]) \subseteq Own(t) BY <1>7, <2>3 DEF Own
    <3> QED BY <1>8, <2>1, <2>2, <2>3, <3>1, SameAddress
  <2>4. CASE Address(t) # Address(tab[w]) /\ Address(t) = None BY <2>2, <2>4, NoAddress
  <2>5. CASE Address(t) # Address(tab[w]) /\ Address(t) # None
    BY <1>7, <1>8, <2>1, <2>5, MovedAddress
  <2> QED BY <2>3, <2>4, <2>5
<1>9. OnReceive(w, t) = (Children(t) /\ route'[w] = "receive") BY <1>1 DEF OnReceive
<1>10. PageOK(Own(t), Children(t) /\ route'[w] = "receive",
              AccountAfter(account[w], tab[w], t), PanelsAfter(w, tab[w], t),
              CallsAfter(w, tab[w], t), now)
  BY <1>9, <1>11
<1> QED BY <1>1, <1>3, <1>4, <1>10, PageStep DEF PagesInv, t

LEMMA NextPagesInv ==
  ASSUME PagesInv, [NextPages]_allvars
  PROVE  PagesInv'
<1>1. CASE UNCHANGED allvars
  BY <1>1 DEF allvars, vars, ledger, pages, PagesInv, IInv, TypeOK, OnReceive
<1>2. ASSUME NEW w \in Tabs, NEW c \in calls[w],
             \/ Serve(w, c) \/ SummaryLoaded(w, c) \/ HistoryLoaded(w, c)
             \/ SummaryFailed(w, c) \/ HistoryFailed(w, c) \/ PanelAnswered(w, c)
      PROVE  PagesInv'
  BY <1>2, ServeOK, AnswersOK, PanelAnsweredOK
<1> QED BY <1>1, <1>2, SessionOK, RefreshOK, FundOK, CreateLinkOK, AnotherLinkOK, NavigateOK,
           CloseOK
        DEF NextPages

(* What NeverGoesBack says of one step.                                       *)
NotBack ==
  \A w \in Tabs : \A f \in {"xlm", "history"} :
    LET old == account[w][f]
        new == account'[w][f]
    IN  (old.of = new.of) => old.at <= new.at

Newer(a, b) ==
  /\ a.xlm.of = b.xlm.of => a.xlm.at <= b.xlm.at
  /\ a.history.of = b.history.of => a.history.at <= b.history.at

LEMMA AccountStep ==
  ASSUME PagesInv, NEW w \in Tabs, NEW a, account' = [account EXCEPT ![w] = a],
         Newer(account[w], a)
  PROVE  NotBack
<1>1. ASSUME NEW v \in Tabs PROVE Newer(account[v], account'[v])
  <2>1. CASE v = w
    <3>1. account'[v] = a BY <2>1 DEF PagesInv
    <3> QED BY <2>1, <3>1
  <2>2. CASE v # w
    <3>1. account'[v] = account[v] BY <2>2 DEF PagesInv
    <3>2. account[v] \in AnyAccount BY DEF PagesInv
    <3>3. account[v].xlm.at \in Nat /\ account[v].history.at \in Nat
      BY <3>2, WalletPagesAssumption DEF AnyAccount, Reading
    <3> QED BY <3>1, <3>3 DEF Newer
  <2> QED BY <2>1, <2>2
<1> QED BY <1>1 DEF NotBack, Newer

LEMMA SameAccounts == ASSUME PagesInv, UNCHANGED account PROVE NotBack
<1>1. ASSUME NEW w \in Tabs, NEW f \in {"xlm", "history"} PROVE account[w][f].at \in Nat
  <2>1. account[w] \in AnyAccount BY DEF PagesInv
  <2> QED BY <2>1, WalletPagesAssumption DEF AnyAccount, Reading
<1> QED BY <1>1 DEF NotBack

LEMMA NextNotBack == ASSUME PagesInv, [NextPages]_allvars PROVE NotBack
<1>1. ASSUME NEW w \in Tabs
      PROVE  LET a == account[w]
             IN  /\ a \in Account(Own(tab[w]), now) /\ CallsOK(a, calls[w])
                 /\ a.xlm.at \in Nat /\ a.history.at \in Nat
                 /\ a.xlm.of = None => a.xlm.at = 0
                 /\ a.history.of = None => a.history.at = 0
                 /\ Newer(a, a)
  <2> DEFINE a == account[w]
             k == Own(tab[w])
  <2>1. a \in Account(k, now) /\ CallsOK(a, calls[w]) /\ now \in Nat /\ None \notin k
    BY PageTyped DEF PageOK
  <2>2. a.xlm \in Readings(k, now) /\ a.history \in Readings(k, now)
    BY <2>1 DEF Account
  <2>3. /\ a.xlm.at \in Nat /\ a.history.at \in Nat
        /\ a.xlm.of = None => a.xlm.at = 0
        /\ a.history.of = None => a.history.at = 0
    BY <2>1, <2>2 DEF Readings, Blank
  <2> QED BY <2>1, <2>3 DEF Newer
<1>2. ASSUME NEW w \in Tabs, Session(w) PROVE NotBack
  <2> DEFINE b == AccountAfter(account[w], tab[w], tab'[w])
  <2>1. account' = [account EXCEPT ![w] = b] BY <1>2 DEF Session
  <2>2. b = account[w] \/ b = emptyAccount \/ b = Loading(account[w])
    BY DEF AccountAfter, Reset
  <2>3. Newer(account[w], emptyAccount) BY <1>1 DEF Newer, emptyAccount, Blank
  <2>4. Newer(account[w], Loading(account[w]))
    <3>1. Loading(account[w]).xlm = account[w].xlm
          /\ Loading(account[w]).history = account[w].history
      BY <1>1 DEF Loading, Account
    <3> QED BY <1>1, <3>1 DEF Newer
  <2> HIDE DEF b
  <2> QED BY <1>1, <2>1, <2>2, <2>3, <2>4, AccountStep
<1>3. ASSUME NEW w \in Tabs, Refresh(w) PROVE NotBack
  <2> DEFINE b == Loading(account[w])
  <2>1. account' = [account EXCEPT ![w] = b] BY <1>3 DEF Refresh
  <2>2. b.xlm = account[w].xlm /\ b.history = account[w].history
    BY <1>1 DEF Loading, Account
  <2> HIDE DEF b
  <2>3. Newer(account[w], b) BY <1>1, <2>2 DEF Newer
  <2> QED BY <2>1, <2>3, AccountStep
<1>4. ASSUME NEW w \in Tabs, NEW c \in calls[w], SummaryLoaded(w, c) PROVE NotBack
  <2> DEFINE r == [of |-> c.of, at |-> c.at]
             b == [account[w] EXCEPT !.loading = FALSE, !.activated = "yes", !.xlm = r]
  <2>1. account' = [account EXCEPT ![w] = b] BY <1>4 DEF SummaryLoaded, Arrived
  <2>2. c.what = "summary" /\ account[w].xlm.at <= c.at
    BY <1>1, <1>4 DEF SummaryLoaded, CallsOK
  <2>3. r.at = c.at OBVIOUS
  <2> HIDE DEF r
  <2>4. b.xlm = r /\ b.history = account[w].history BY <1>1 DEF Account
  <2> HIDE DEF b
  <2>5. Newer(account[w], b) BY <1>1, <2>2, <2>3, <2>4 DEF Newer
  <2> QED BY <2>1, <2>5, AccountStep
<1>5. ASSUME NEW w \in Tabs, NEW c \in calls[w], HistoryLoaded(w, c) PROVE NotBack
  <2> DEFINE r == [of |-> c.of, at |-> c.at]
             b == [account[w] EXCEPT !.history = r]
  <2>1. account' = [account EXCEPT ![w] = b] BY <1>5 DEF HistoryLoaded, Arrived
  <2>2. c.what = "history" /\ account[w].history.at <= c.at
    BY <1>1, <1>5 DEF HistoryLoaded, CallsOK
  <2>3. r.at = c.at OBVIOUS
  <2> HIDE DEF r
  <2>4. b.history = r /\ b.xlm = account[w].xlm BY <1>1 DEF Account
  <2> HIDE DEF b
  <2>5. Newer(account[w], b) BY <1>1, <2>2, <2>3, <2>4 DEF Newer
  <2> QED BY <2>1, <2>5, AccountStep
<1>6. ASSUME NEW w \in Tabs, NEW c \in calls[w], SummaryFailed(w, c) PROVE NotBack
  <2> DEFINE b == [account[w] EXCEPT !.loading = FALSE, !.activated = "no", !.error = TRUE]
  <2>1. account' = [account EXCEPT ![w] = b] BY <1>6 DEF SummaryFailed, Arrived
  <2>2. b.xlm = account[w].xlm /\ b.history = account[w].history BY <1>1 DEF Account
  <2> HIDE DEF b
  <2>3. Newer(account[w], b) BY <1>1, <2>2 DEF Newer
  <2> QED BY <2>1, <2>3, AccountStep
<1>7. ASSUME NEW w \in Tabs, NEW c \in calls[w], HistoryFailed(w, c) PROVE NotBack
  <2> DEFINE b == [account[w] EXCEPT !.history = Blank]
  <2>1. account' = [account EXCEPT ![w] = b] BY <1>7 DEF HistoryFailed, Arrived
  <2>2. b.xlm = account[w].xlm /\ b.history = Blank BY <1>1 DEF Account
  <2> HIDE DEF b
  <2>3. Newer(account[w], b) BY <1>1, <2>2 DEF Newer, Blank
  <2> QED BY <2>1, <2>3, AccountStep
<1>8. CASE UNCHANGED account BY <1>8, SameAccounts
<1> QED BY <1>2, <1>3, <1>4, <1>5, <1>6, <1>7, <1>8
        DEF NextPages, allvars, pages, Fund, CreateLink, AnotherLink, Navigate, Serve,
            PanelAnswered, Close

-----------------------------------------------------------------------------
(* WalletSession goes on under the pages as it does alone.                    *)
LEMMA PagesSession == SpecPages => Spec
<1>1. Init0 => Init BY DEF Init0
<1>2. [NextPages]_allvars => [Next]_vars
  BY DEF NextPages, allvars, Session, Next, Refresh, Fund, CreateLink, AnotherLink, Navigate,
         Serve, SummaryLoaded, HistoryLoaded, SummaryFailed, HistoryFailed, Arrived,
         PanelAnswered, Close
<1> QED BY <1>1, <1>2, PTL DEF SpecPages, Spec

LEMMA PagesAlways == SpecPages => []PagesInv
<1>1. PagesInv /\ [NextPages]_allvars => PagesInv' BY NextPagesInv
<1> QED BY <1>1, PagesInit, PTL DEF SpecPages

(* WalletProvider, the overview and the receive page: their state keeps its   *)
(* shape, and a page says that it loads exactly while a summary is out.       *)
THEOREM PagesTyped == SpecPages => []PagesTypeOK
<1>1. PagesInv => PagesTypeOK
  <2> SUFFICES ASSUME PagesInv PROVE PagesTypeOK OBVIOUS
  <2>1. \A w \in Tabs : account[w].loading <=> \E c \in calls[w] : c.what = "summary"
    BY DEF PagesInv, PageOK, CallsOK
  <2> QED BY <2>1 DEF PagesInv, PagesTypeOK, IInv, AnyAccount, AnyPanels, Key
<1> QED BY <1>1, PagesAlways, PTL

(* Everything a tab shows belongs to the account it has open, for any number  *)
(* of tabs and of answers that are out, or also to a key that was removed     *)
(* from that tab while its password was checked.                              *)
THEOREM PagesShowOwn == SpecPages => []OwnPages
<1>1. PagesInv => OwnPages
  <2> SUFFICES ASSUME PagesInv, NEW w \in Tabs
               PROVE  LET late == tab[w].late
                          own == IF Address(tab[w]) = None THEN {None}
                                 ELSE {None, Address(tab[w])} \cup
                                      (IF late = {} THEN {} ELSE {tab[w].encrypted} \cup late)
                      IN  /\ account[w].xlm.of \in own /\ account[w].history.of \in own
                          /\ receive[w].qr \in own /\ receive[w].link \in own
    BY DEF OwnPages
  <2> DEFINE k == Own(tab[w])
             own == IF Address(tab[w]) = None THEN {None}
                    ELSE {None, Address(tab[w])} \cup
                         (IF tab[w].late = {} THEN {} ELSE {tab[w].encrypted} \cup tab[w].late)
  <2>1. account[w] \in Account(k, now) /\ receive[w] \in Panels(k) BY PageTyped DEF PageOK
  <2>2. {None} \cup k \subseteq own
    <3>1. Address(tab[w]) \in {None, tab[w].encrypted} \cup tab[w].late
      BY DEF PagesInv, IInv, TabOK, Address
    <3> QED BY <3>1 DEF Own
  <2> HIDE DEF k, own
  <2>3. account[w].xlm \in Readings(k, now) /\ account[w].history \in Readings(k, now)
    BY <2>1 DEF Account
  <2>4. /\ account[w].xlm.of \in own /\ account[w].history.of \in own
        /\ receive[w].qr \in own /\ receive[w].link \in own
    BY <2>1, <2>2, <2>3 DEF Readings, Blank, Panels
  <2> QED BY <2>4 DEF own
<1> QED BY <1>1, PagesAlways, PTL

(* The account effect: what is shown of an account is never replaced by an    *)
(* older reading of it.                                                       *)
THEOREM ReadingsGoForward == SpecPages => NeverGoesBack
<1>1. PagesInv /\ [NextPages]_allvars => [NotBack]_allvars BY NextNotBack
<1>2. SpecPages => [][NotBack]_allvars BY <1>1, PagesAlways, PTL DEF SpecPages
<1> QED BY <1>2 DEF NeverGoesBack, NotBack

(* Under the pages too, no tab is left at onboarding without a reason, shows  *)
(* a secret when locked, or signs with another key than its wallet's or one   *)
(* that was removed from it while its password was checked.                   *)
THEOREM SessionUnderPages ==
  SpecPages => []SetupHasReason /\ []LockedShowsNothing /\ []SecretOfWallet
BY PagesSession, SetupEnds, SecretLeavesScreen, SignerIsWallet, PTL

(* ... and in one tab no key that was ever stored is lost.                    *)
THEOREM KeysUnderPages ==
  ASSUME \A v, w \in Tabs : v = w
  PROVE  SpecPages => []KeyRecoverable
BY PagesSession, KeysAreKept, PTL
=============================================================================
