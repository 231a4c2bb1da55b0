---------------------------- MODULE RedirectUris ----------------------------
(***************************************************************************)
(* Validation of redirect URIs, internal/infrastructure/redirect, and what *)
(* storage makes of a list of them: the column redirect_uris is the list   *)
(* joined with commas, and reading splits it at every comma.               *)
(*                                                                         *)
(* A URI is parsed: a path is the sequence of its segments, a query the    *)
(* sequence of the texts between its commas, any texts for a loopback URI: *)
(* its query is not looked at.  Neither is the user information in front   *)
(* of its host, which is left out here.  A path is compared with           *)
(* configured ones, so no other part holds a comma that was not configured.*)
(***************************************************************************)
EXTENDS Naturals, Sequences, SequencesExt

CONSTANTS
  LoopbackEnabled,
  LoopbackPaths,    \* clean paths, sequences of segments
  CustomSchemes,    \* allowed URIs of custom schemes
  HostedHTTPS,      \* allowed https URIs
  Texts             \* the URIs among the texts behind commas, by their text

(* What url.Parse takes a URI apart into.                                  *)
URI ==
  [scheme : STRING, host : STRING, port : STRING, path : Seq(STRING),
   query : Seq(STRING), fragment : BOOLEAN]

ASSUME TextsAssumption ==
  \A t \in DOMAIN Texts :
    Texts[t] \in URI /\ Texts[t].scheme # "" /\ Len(Texts[t].query) <= 1

LoopbackHosts == {"localhost", "127.0.0.1"}

(* A text that is no URI.                                                  *)
Rest(text) ==
  [scheme |-> "", host |-> "", port |-> "", path |-> <<>>,
   query |-> <<text>>, fragment |-> FALSE]

Invalid == Rest("")

CleanSegment(kept, segment) ==
  CASE segment \in {"", "."} -> kept
    [] segment = ".." -> IF kept = <<>> THEN <<>> ELSE Front(kept)
    [] OTHER -> Append(kept, segment)

(* path.Clean of a rooted path.                                            *)
CleanPath(path) == FoldLeft(CleanSegment, <<>>, path)

IsCustomScheme(scheme) == scheme \notin {"", "http", "https"}

StripDefaultPort(u) ==
  IF <<u.scheme, u.port>> \in {<<"https", "443">>, <<"http", "80">>}
  THEN [u EXCEPT !.port = ""]
  ELSE u

SameRedirect(a, b) ==
  /\ a.scheme = b.scheme
  /\ a.host = b.host
  /\ a.port = b.port
  /\ a.path = b.path
  /\ a.query = b.query

IsAllowedLoopback(u) ==
  /\ LoopbackEnabled
  /\ u.scheme = "http"
  /\ u.host \in LoopbackHosts
  /\ u.path \in LoopbackPaths

IsAllowedHostedHTTPS(u) ==
  /\ u.scheme = "https"
  /\ \E allowed \in HostedHTTPS :
       ~allowed.fragment
         /\ SameRedirect(StripDefaultPort(u), StripDefaultPort(allowed))

IsAllowedCustomScheme(u) ==
  /\ IsCustomScheme(u.scheme)
  /\ \E allowed \in CustomSchemes : SameRedirect(u, allowed)

Allowed(u) ==
  /\ u.scheme # ""
  /\ u.host # "" \/ IsCustomScheme(u.scheme)
  /\ ~u.fragment
  /\ IsAllowedCustomScheme(u) \/ IsAllowedHostedHTTPS(u)
       \/ IsAllowedLoopback(u)

Cleaned(raw) == [raw EXCEPT !.path = CleanPath(raw.path)]

(* Mutant: the URI is checked cleaned and returned as it came.             *)
ValidateRaw(raw) == IF Allowed(Cleaned(raw)) THEN raw ELSE Invalid
Validate(raw) == IF Allowed(Cleaned(raw)) THEN Cleaned(raw) ELSE Invalid

(* Join and split: the text up to the first comma is still a URI, and what *)
(* stands behind one may be another, whole and validated by nobody.        *)
Piece(text) == IF text \in DOMAIN Texts THEN Texts[text] ELSE Rest(text)

Pieces(u) ==
  IF Len(u.query) <= 1 THEN {u}
  ELSE {[u EXCEPT !.query = <<u.query[1]>>]}
         \cup {Piece(text) : text \in Range(Tail(u.query)) \ {""}}

ReadBack(uris) == UNION {Pieces(u) : u \in uris}
=============================================================================
