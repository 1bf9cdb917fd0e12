----------------------------- MODULE MCAccounts -----------------------------
(***************************************************************************)
(* A bounded instance of Accounts.  Keys and names are interchangeable:    *)
(* the first request is about k1 and n1.                                   *)
(***************************************************************************)
EXTENDS Accounts

CONSTANTS k1, k2, n1, n2

MCKeys == {k1, k2}
MCNames == {n1, n2}

Asking(kinds, keys, names) == [kind: kinds, key: keys, name: names]

\* Three requests: enough for two users, and for a user that two others touch.
MCAsks == <<
  Asking({"register", "signUp"}, {k1}, {n1}),
  Asking({"signUp", "create", "rename"}, MCKeys, MCNames),
  Asking({"create", "rename"}, MCKeys, MCNames)>>

\* Two users; one asks in vain for the other's name, who then takes his.
MCRenames == <<
  Asking({"signUp"}, {k1}, {n1}),
  Asking({"signUp"}, {k2}, {n2}),
  Asking({"rename"}, {k2}, {n1}),
  Asking({"rename"}, {k1}, {n2})>>
=============================================================================
