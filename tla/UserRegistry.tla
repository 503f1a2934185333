---------------------------- MODULE UserRegistry ----------------------------
(***************************************************************************)
(* What the users table promises: an account, once it is there, stays as   *)
(* it is, and no two accounts share a nickname, an email or a Google       *)
(* account.                                                                *)
(***************************************************************************)
CONSTANTS Ids, Nicknames, Emails, GoogleAccounts

VARIABLES accounts

Keys == {"nickname", "email", "google"}

Account ==
  [id : Ids, nickname : Nicknames, email : Emails, google : GoogleAccounts]

Differ(a, b) == a.id # b.id /\ \A key \in Keys : a[key] # b[key]

Init == accounts = {}

Add(account) ==
  /\ \A other \in accounts : Differ(account, other)
  /\ accounts' = accounts \cup {account}

Next == \E account \in Account : Add(account)

Spec == Init /\ [][Next]_accounts
=============================================================================
