------------------------------ MODULE Contacts ------------------------------
(***************************************************************************)
(* The web site and the account in a social network of an organization:    *)
(* web/src/lib/contactCheck.ts, which the panel that adds an object asks   *)
(* before it sends, and internal/places/contacts.go, which decides and     *)
(* stores.  An address is what the two tell apart of it.  A web site is    *)
(* normalised when it is stored and made a link when it is shown.          *)
(***************************************************************************)
EXTENDS Naturals

CONSTANTS
    Lengths,   \* how long an address may be
    MaxLength, \* the longest that is taken (MaxSite, MaxSocial)
    None

LengthsAssumption == Lengths \subseteq Nat \ {0} /\ MaxLength \in Nat

VARIABLES
    field,     \* the field that is filled in: "site" or "social"
    contact,   \* the address in it, or None
    refused,   \* the server refused it
    kept       \* what the server keeps, or None

vars == <<field, contact, refused, kept>>

\* "https://" is put before an address without a scheme.
PrefixLength == 8

(***************************************************************************)
(* A host is a network of the list or a name under it (instagram.com,      *)
(* m.instagram.com), another domain, one in Cyrillic, with a dash at an    *)
(* end of a part, with a last part that begins with a digit, in punycode   *)
(* (xn--p1ai) or in punycode that ends with a digit and a letter           *)
(* (xn--80ao21a), an IP, localhost, a name of a local network, or a name   *)
(* without a dot.  nested: there is another address in the query.  That a  *)
(* Cyrillic path grows when it is stored is left out.                      *)
(***************************************************************************)
Networks == {"network", "m.network"}
Hosts == Networks \cup {"domain", "cyrillic", "dash", "digit", "punycode",
                        "punycode1a", "ip",
                        "localhost", "local", "nodot"}
Contacts == [scheme: {"none", "http", "https", "mailto", "ftp"}, user: BOOLEAN,
             host: Hosts, port: {"none", "zero", "some", "big"},
             path: {"none", "slash", "account"}, nested: BOOLEAN,
             length: Lengths]

-----------------------------------------------------------------------------
(* What the page checks.                                                   *)

\* new URL() writes a Cyrillic name in ASCII before it is looked at, takes
\* port 0, and throws at a port that is no 16-bit number.
checkWebUrl(c) ==
    /\ c.scheme \in {"none", "http", "https"}
    /\ c.port # "big"
    /\ ~c.user
    /\ c.host \notin {"punycode1a", "ip", "localhost", "local", "nodot"}
siteProblem(c) == ~(checkWebUrl(c) /\ c.length <= MaxLength)
socialProblem(c) ==
    ~(/\ checkWebUrl(c)
      /\ c.host \in Networks
      /\ c.path = "account"
      /\ c.length <= MaxLength)
Problem(f, c) == IF f = "site" THEN siteProblem(c) ELSE socialProblem(c)

-----------------------------------------------------------------------------
(* What the server takes.                                                  *)

publicHostname(h) == h \in Networks \cup {"domain", "punycode", "punycode1a"}

\* The address as it is stored.
Clean(c) ==
    IF c.scheme = "none"
    THEN [c EXCEPT !.scheme = "https", !.length = @ + PrefixLength]
    ELSE c

\* An address without a scheme must have no "://" anywhere.
cleanWebURL(c) ==
    /\ c.length <= MaxLength
    /\ c.scheme \in {"none", "http", "https"}
    /\ c.scheme = "none" => ~c.nested
    /\ ~c.user
    /\ publicHostname(c.host)
    /\ c.port \in {"none", "some"}
    /\ Clean(c).length <= MaxLength
cleanSocial(c) == cleanWebURL(c) /\ c.host \in Networks /\ c.path = "account"
Takes(f, c) == IF f = "site" THEN cleanWebURL(c) ELSE cleanSocial(c)

-----------------------------------------------------------------------------
(* What is shown.                                                          *)

\* safeHref: only http and https become a link.
safeHref(c) == c.scheme \in {"http", "https"}
\* The name of the network, "none" when it is none of those that have one.
socialName(c) == IF c.host \in Networks THEN "network" ELSE "none"

-----------------------------------------------------------------------------
Init ==
    /\ field \in {"site", "social"}
    /\ contact = None
    /\ refused = FALSE
    /\ kept = None

Type(c) ==
    /\ contact = None
    /\ contact' = c
    /\ UNCHANGED <<field, refused, kept>>

ClearField ==
    /\ contact # None
    /\ kept = None
    /\ contact' = None
    /\ refused' = FALSE
    /\ UNCHANGED <<field, kept>>

Send ==
    /\ contact # None
    /\ kept = None
    /\ ~Problem(field, contact)
    /\ IF Takes(field, contact)
       THEN kept' = Clean(contact) /\ UNCHANGED refused
       ELSE refused' = TRUE /\ UNCHANGED kept
    /\ UNCHANGED <<field, contact>>

Next == (\E c \in Contacts : Type(c)) \/ ClearField \/ Send

Spec == Init /\ [][Next]_vars

-----------------------------------------------------------------------------
TypeOK ==
    /\ field \in {"site", "social"}
    /\ contact \in Contacts \cup {None}
    /\ refused \in BOOLEAN
    /\ kept = None \/ kept.length \in 1..MaxLength

(***************************************************************************)
(* The page keeps nothing from the server that the server would take,      *)
(* punycode1a apart; what is stored is shown as a link, an account with    *)
(* the name of its network; and sent again it is taken as it is            *)
(* (contactCheck.ts:4-8, contacts.go:52-53).                               *)
(***************************************************************************)
ContactsRight ==
    /\ contact # None /\ contact.host # "punycode1a" /\ Takes(field, contact) =>
          ~Problem(field, contact)
    /\ kept # None =>
          /\ safeHref(kept)
          /\ field = "social" => socialName(kept) # "none"
          /\ Takes(field, kept) /\ Clean(kept) = kept
          /\ ~Problem(field, kept)

(***************************************************************************)
(* contactCheck.ts:7 says that the rules are those of the server.  They    *)
(* are not: the page also lets through what gets too long with "https://", *)
(* an address in the query of one without a scheme, port 0, and hosts in   *)
(* Cyrillic, with a dash at an end or a digit in the last part; and it     *)
(* refuses punycode1a.                                                     *)
(***************************************************************************)
SameRules == ~refused
=============================================================================
