----------------------------- MODULE WalletPages -----------------------------
(* What a tab shows of the open account (src/frontend: WalletProvider's       *)
(* account effect, the overview and the receive page, behind WalletGate), and *)
(* the backend's account routes it asks (src/backend/src/stellar), composed   *)
(* with WalletSession, which opens, locks and removes the wallet meanwhile.   *)
(*                                                                            *)
(* An effect that runs again, or whose component is unmounted, clears the     *)
(* `active' flag of what it started: an answer that will be ignored is not    *)
(* kept in `calls'. A reading of the ledger is the account it is of and the   *)
(* moment it was taken; amounts and payments themselves are left out.         *)
EXTENDS WalletSession

CONSTANT MaxTime   \* ledgers closed, a bound

ASSUME WalletPagesAssumption == MaxTime \in Nat

VARIABLES now,      \* the ledger's time
          active,   \* accounts that exist on the ledger
          account,  \* WalletProvider's account, per tab
          route,    \* the page a tab is at
          receive,  \* the QR code and the payment link its receive page shows
          calls     \* answers a tab awaits
ledger == <<now, active>>
pages  == <<account, route, receive, calls>>
allvars == <<vars, ledger, pages>>

-----------------------------------------------------------------------------
Blank   == [of |-> None, at |-> 0]       \* null, or an empty list
Reading == [of : Keys \cup {None}, at : 0..MaxTime]
emptyAccount == [loading |-> FALSE, activated |-> "unknown", xlm |-> Blank,
                 history |-> Blank, error |-> FALSE]
emptyPanels  == [qr |-> None, link |-> None]

Call(what, k) == [what |-> what, of |-> k, served |-> FALSE, found |-> FALSE, at |-> 0]
AccountCalls(k) == {Call("summary", k), Call("history", k)}

Address(s) == s.secret                   \* set and cleared together
Children(s) == Screen(s) = "wallet"      \* WalletGate renders the page
OnReceive(w, s) == Children(s) /\ route[w] = "receive"

(* Cleanup of an effect.                                                      *)
NotCancelled(C, whats) == C              \* fault: no `active' flag
Cancelled(C, whats) == {c \in C : c.what \notin whats}

(* The account effect: what was loaded stays until the answers replace it.    *)
ResetNever(a) == a                       \* fault: no reset without an address
Reset(a) == emptyAccount
Loading(a) == [a EXCEPT !.loading = TRUE, !.error = FALSE]

AccountAfter(a, s, t) ==
  CASE Address(t) = Address(s)                          -> a
    [] Address(t) # Address(s) /\ Address(t) = None     -> Reset(a)
    [] OTHER                                            -> Loading(a)

(* The receive page: unmounted it forgets, on another address it makes a new  *)
(* code and goes on showing the former until then.                            *)
PanelsKept(w, s, t) == receive[w]        \* fault: a page left keeps what it showed
PanelsAfter(w, s, t) == IF OnReceive(w, s) /\ OnReceive(w, t) THEN receive[w] ELSE emptyPanels

CallsAfter(w, s, t) ==
  LET moved  == Address(t) # Address(s)
      stayed == OnReceive(w, s) /\ OnReceive(w, t)
      C == IF moved THEN Cancelled(calls[w], {"summary", "history", "qr"}) ELSE calls[w]
      D == IF stayed THEN C ELSE Cancelled(C, {"qr", "link"})
  IN  D \cup (IF moved /\ Address(t) # None THEN AccountCalls(Address(t)) ELSE {})
        \cup (IF OnReceive(w, t) /\ (moved \/ ~stayed) THEN {Call("qr", Address(t))} ELSE {})

Init0 ==
  /\ Init
  /\ now = 0 /\ active = {}
  /\ account = [w \in Tabs |-> emptyAccount]
  /\ route = [w \in Tabs |-> "overview"]
  /\ receive = [w \in Tabs |-> emptyPanels]
  /\ calls = [w \in Tabs |-> {}]

-----------------------------------------------------------------------------
(* A step of the session, and the effects that follow it.                     *)
Session(w) ==
  /\ Step(w)
  /\ account' = [account EXCEPT ![w] = AccountAfter(account[w], tab[w], tab'[w])]
  /\ receive' = [receive EXCEPT ![w] = PanelsAfter(w, tab[w], tab'[w])]
  /\ calls' = [calls EXCEPT ![w] = CallsAfter(w, tab[w], tab'[w])]
  /\ UNCHANGED <<route, ledger>>

(* refreshAccount: Try again, the end of a payment or of a check, and four    *)
(* seconds after Friendbot's answer.                                          *)
Refresh(w) ==
  /\ Address(tab[w]) # None
  /\ account' = [account EXCEPT ![w] = Loading(@)]
  /\ calls' = [calls EXCEPT ![w] = Cancelled(@, {"summary", "history"})
                                     \cup AccountCalls(Address(tab[w]))]
  /\ UNCHANGED <<vars, ledger, route, receive>>

(* getAccountSummary, getHistory: the account as it is when Horizon is asked; *)
(* one that does not exist is a 404 or a 503.                                 *)
Found(k) == k \in active

Serve(w, c) ==
  /\ c \in calls[w] /\ c.what \in {"summary", "history"} /\ ~c.served
  /\ calls' = [calls EXCEPT ![w] = (@ \ {c}) \cup
                 {[c EXCEPT !.served = TRUE, !.found = Found(c.of), !.at = now]}]
  /\ UNCHANGED <<vars, ledger, account, route, receive>>

Arrived(w, c, a) ==
  /\ account' = [account EXCEPT ![w] = a]
  /\ calls' = [calls EXCEPT ![w] = @ \ {c}]
  /\ UNCHANGED <<vars, ledger, route, receive>>

SummaryLoaded(w, c) ==
  /\ c \in calls[w] /\ c.what = "summary" /\ c.found
  /\ Arrived(w, c, [account[w] EXCEPT !.loading = FALSE, !.activated = "yes",
                                      !.xlm = [of |-> c.of, at |-> c.at]])

HistoryLoaded(w, c) ==
  /\ c \in calls[w] /\ c.what = "history" /\ c.found
  /\ Arrived(w, c, [account[w] EXCEPT !.history = [of |-> c.of, at |-> c.at]])

(* apiFetch throws: no network, a refusal of the guard, or an answer that is  *)
(* not ok, the 404 of an account that does not exist included.                *)
SummaryFailed(w, c) ==
  /\ c \in calls[w] /\ c.what = "summary"
  /\ Arrived(w, c, [account[w] EXCEPT !.loading = FALSE, !.activated = "no", !.error = TRUE])

HistoryFailed(w, c) ==
  /\ c \in calls[w] /\ c.what = "history"
  /\ Arrived(w, c, [account[w] EXCEPT !.history = Blank])

-----------------------------------------------------------------------------
(* OverviewPage: what it offers.                                              *)
Overview(a) ==
  {o \in {"fund", "retry", "balance"} :
     \/ o = "fund"    /\ a.activated = "no" /\ ~a.error
     \/ o = "retry"   /\ a.error
     \/ o = "balance" /\ (a.xlm # Blank \/ a.error)}

(* SendFlow's blockedReason: "This account isn't active on Stellar yet."      *)
Blocked(a) == a.activated = "no"

(* FundNotice.fund and fundTestnet: Friendbot creates the account, or refuses.*)
(* (Late, or for a page that is gone: Close.)                                 *)
Fund(w) ==
  /\ Children(tab[w]) /\ route[w] = "overview" /\ "fund" \in Overview(account[w])
  /\ active' \in {active, active \cup {Address(tab[w])}}
  /\ UNCHANGED <<vars, pages, now>>

(* The application's navigation.                                              *)
Navigate(w, r) ==
  /\ Children(tab[w]) /\ r # route[w]
  /\ route' = [route EXCEPT ![w] = r]
  /\ receive' = [receive EXCEPT ![w] = emptyPanels]
  /\ calls' = [calls EXCEPT ![w] = Cancelled(@, {"qr", "link"}) \cup
                 (IF r = "receive" THEN {Call("qr", Address(tab[w]))} ELSE {})]
  /\ UNCHANGED <<vars, ledger, account>>

(* AddressPanel and PaymentRequestPanel. createLink stores what it is asked.  *)
CreateLink(w) ==
  /\ OnReceive(w, tab[w]) /\ receive[w].link = None
  /\ \A c \in calls[w] : c.what # "link"
  /\ calls' = [calls EXCEPT ![w] = @ \cup {Call("link", Address(tab[w]))}]
  /\ UNCHANGED <<vars, ledger, account, route, receive>>

PanelAnswered(w, c) ==
  /\ c \in calls[w] /\ c.what \in {"qr", "link"}
  /\ calls' = [calls EXCEPT ![w] = @ \ {c}]
  /\ \/ receive' = [receive EXCEPT ![w][c.what] = c.of]
     \/ c.what = "qr" /\ receive' = [receive EXCEPT ![w].qr = None]
     \/ c.what = "link" /\ UNCHANGED receive
  /\ UNCHANGED <<vars, ledger, account, route>>

AnotherLink(w) ==
  /\ OnReceive(w, tab[w]) /\ receive[w].link # None
  /\ receive' = [receive EXCEPT ![w].link = None]
  /\ UNCHANGED <<vars, ledger, account, route, calls>>

-----------------------------------------------------------------------------
(* Ledgers close, with payments, one of which may create the account.         *)
Close ==
  /\ now < MaxTime
  /\ now' = now + 1
  /\ \E K \in {{}} \cup {{k} : k \in made \cup Foreign} : active' = active \cup K
  /\ UNCHANGED <<vars, pages>>

NextPages ==
  \/ \E w \in Tabs :
       \/ Session(w) \/ Refresh(w) \/ Fund(w) \/ CreateLink(w) \/ AnotherLink(w)
       \/ \E r \in {"overview", "receive"} : Navigate(w, r)
       \/ \E c \in calls[w] :
            \/ Serve(w, c) \/ SummaryLoaded(w, c) \/ HistoryLoaded(w, c)
            \/ SummaryFailed(w, c) \/ HistoryFailed(w, c) \/ PanelAnswered(w, c)
  \/ Close

SpecPages == Init0 /\ [][NextPages]_allvars
-----------------------------------------------------------------------------
(* The tabs keep their shape, and a page says that it loads the account       *)
(* exactly while a summary it asked for is still to be answered.              *)
PagesTypeOK ==
  /\ TypeOK
  /\ now \in 0..MaxTime /\ active \subseteq Keys
  /\ account \in [Tabs -> [loading : BOOLEAN, activated : {"unknown", "yes", "no"},
                           xlm : Reading, history : Reading, error : BOOLEAN]]
  /\ route \in [Tabs -> {"overview", "receive"}]
  /\ receive \in [Tabs -> [qr : Keys \cup {None}, link : Keys \cup {None}]]
  /\ \A w \in Tabs : account[w].loading <=> \E c \in calls[w] : c.what = "summary"

(* Everything a tab shows belongs to the account it has open: the balance,    *)
(* the history, the code to be scanned and the link to be sent, whichever     *)
(* answers were out when the wallet was locked, removed or another was opened.*)
(* Only a key that was removed while its password was checked (OneWallet) may *)
(* take the place of an open wallet, or give way to it, without a lock between*)
(* them; then what is shown is still theirs, and a lock clears it.            *)
OwnPages ==
  \A w \in Tabs :
    LET late == tab[w].late
        own == IF Address(tab[w]) = None THEN {None}
               ELSE {None, Address(tab[w])} \cup
                    (IF late = {} THEN {} ELSE {tab[w].encrypted} \cup late)
    IN  /\ account[w].xlm.of \in own /\ account[w].history.of \in own
        /\ receive[w].qr \in own /\ receive[w].link \in own

(* While an account stays open its balance and its history are never replaced *)
(* by older ones: of two loads the one started later wins, however the        *)
(* answers are ordered.                                                       *)
NeverGoesBack ==
  [][\A w \in Tabs : \A f \in {"xlm", "history"} :
       LET old == account[w][f]
           new == account'[w][f]
       IN  (old.of = new.of) => old.at <= new.at]_allvars

(* SendFlow.tsx:60 tells a user whose account is not active: "Fund it from    *)
(* the Overview page before sending." So the overview offers it to an account *)
(* that does not exist yet, once it has loaded.                               *)
BlockedIsFundable ==
  \A w \in Tabs :
    Blocked(account[w]) /\ ~account[w].loading /\ Address(tab[w]) \notin active =>
      "fund" \in Overview(account[w])
=============================================================================
