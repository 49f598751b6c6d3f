---------------------------- MODULE AccountBook ----------------------------
(***************************************************************************)
(* What the account database promises its users, whatever processes share  *)
(* it: accounts come by a connect, go by a disconnect and change by a      *)
(* token refresh, the selected one goes last, and an upgrade from a        *)
(* release that kept auth.json changes nothing.  The accounts of that file *)
(* are in the book from the start.                                         *)
(*                                                                         *)
(* One exception is part of the promise: a process that read auth.json     *)
(* before it was retired may still bring back accounts of it that were     *)
(* disconnected since.                                                     *)
(***************************************************************************)

CONSTANTS
    Provider, Alias, Process, Credential,
    NoAlias, NoCredential,
    Default,       \* the alias the legacy accounts get
    LegacyAuth     \* provider -> credential, for the providers of auth.json

VARIABLES
    book,          \* provider, alias -> credential
    selected,      \* provider -> alias
    legacy,        \* auth.json has not been retired
    readers        \* processes that read it and have not come to an end with it

Held(p) == { a \in Alias : book[p][a] # NoCredential }

Init ==
    /\ legacy \in BOOLEAN
    /\ book = [p \in Provider |-> [a \in Alias |->
                 IF legacy /\ p \in DOMAIN LegacyAuth /\ a = Default
                 THEN LegacyAuth[p] ELSE NoCredential]]
    /\ selected = [p \in Provider |-> NoAlias]
    /\ readers = {}

(* A provider's first account becomes its selection.                        *)
Connect(p, a, cred) ==
    /\ a \notin Held(p)
    /\ book' = [book EXCEPT ![p][a] = cred]
    /\ selected' = [selected EXCEPT ![p] = IF @ = NoAlias THEN a ELSE @]
    /\ UNCHANGED << legacy, readers >>

Disconnect(p, a) ==
    /\ a \in Held(p)
    /\ selected[p] = a => Held(p) = {a}
    /\ book' = [book EXCEPT ![p][a] = NoCredential]
    /\ selected' = [selected EXCEPT ![p] = IF Held(p) = {a} THEN NoAlias ELSE @]
    /\ UNCHANGED << legacy, readers >>

Renew(p, a, cred) ==
    /\ a \in Held(p)
    /\ cred.kind = "oauth"
    /\ book' = [book EXCEPT ![p][a] = cred]
    /\ UNCHANGED << selected, legacy, readers >>

(* Only held accounts are selected, and a provider keeps a selection.       *)
Select ==
    /\ selected' \in [Provider -> Alias \cup {NoAlias}]
    /\ \A p \in Provider : selected'[p] # selected[p] => selected'[p] \in Held(p)
    /\ UNCHANGED << book, legacy, readers >>

Begin(c) ==
    /\ legacy
    /\ readers' = readers \cup {c}
    /\ UNCHANGED << book, selected, legacy >>

(* The end of an upgrade, or of the process, is no news.                    *)
End(c) ==
    /\ readers' = readers \ {c}
    /\ UNCHANGED << book, selected, legacy >>

Retire ==
    /\ legacy /\ legacy' = FALSE
    /\ UNCHANGED << book, selected, readers >>

(* The exception: it fills gaps, and replaces nothing.                      *)
Return(c) ==
    /\ ~legacy /\ c \in readers
    /\ readers' = readers \ {c}
    /\ book' = [p \in Provider |->
                  IF p \in DOMAIN LegacyAuth /\ Default \notin Held(p)
                  THEN [book[p] EXCEPT ![Default] = LegacyAuth[p]] ELSE book[p]]
    /\ UNCHANGED << selected, legacy >>

Next ==
    \/ \E p \in Provider, a \in Alias :
          \/ Disconnect(p, a)
          \/ \E cred \in Credential : Connect(p, a, cred) \/ Renew(p, a, cred)
    \/ Select
    \/ \E c \in Process : Begin(c) \/ End(c) \/ Return(c)
    \/ Retire

Spec == Init /\ [][Next]_<< book, selected, legacy, readers >>
=============================================================================
