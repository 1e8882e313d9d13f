--------------------------- MODULE MmdsDocument ----------------------------
(***************************************************************************)
(* The MMDS document: what PATCH /mmds makes of it (merge_json in          *)
(* hephaestus-firecracker/src/backend.rs), and what the two services that  *)
(* guests ask make of a request for a path: the packet responder           *)
(* (host_mmds.rs) and the vsock service (MmdsSocketService in              *)
(* DirectVZ.swift), each written in its own language.                      *)
(*                                                                         *)
(* A path is the sequence of its segments as they stand in the request,    *)
(* "" for what lies between two adjacent slashes.                          *)
(***************************************************************************)
EXTENDS Naturals, Sequences, TLC

\* serde_json::Value
Null == [kind |-> "null"]
Text(s) == [kind |-> "text", text |-> s]
Array(s) == [kind |-> "array", items |-> s]
Object(m) == [kind |-> "object", map |-> m]

Missing == [kind |-> "missing"]

-----------------------------------------------------------------------------
(* merge_json *)

RECURSIVE MutMergeJson(_, _)

\* Mutant: an object of the patch replaces the one it is to be merged into.
MutMergeJson(dst, patch) ==
    IF dst.kind = "object" /\ patch.kind = "object"
    THEN LET gone == {k \in DOMAIN patch.map : patch.map[k] = Null}
         IN  Object([k \in (DOMAIN dst.map \cup DOMAIN patch.map) \ gone |->
                        IF k \in DOMAIN patch.map THEN patch.map[k]
                        ELSE dst.map[k]])
    ELSE patch

RECURSIVE MergeJson(_, _)

\* An object is merged into an object key by key, and null removes a key; in
\* all other cases the patch replaces what was there, nested nulls included.
MergeJson(dst, patch) ==
    IF dst.kind = "object" /\ patch.kind = "object"
    THEN LET gone == {k \in DOMAIN patch.map : patch.map[k] = Null}
             Entry(k) == IF k \in DOMAIN dst.map THEN dst.map[k] ELSE Null
         IN  Object([k \in (DOMAIN dst.map \cup DOMAIN patch.map) \ gone |->
                        IF k \in DOMAIN patch.map
                        THEN MergeJson(Entry(k), patch.map[k])
                        ELSE dst.map[k]])
    ELSE patch

-----------------------------------------------------------------------------
(* Requests: a method, a path, and whether JSON is accepted. *)

\* What parse::<usize>() and Int() take for an index.
Index == "0" :> 0 @@ "1" :> 1

\* sanitize_path: adjacent slashes count as one.
SanitizePath(path) == SelectSeq(path, LAMBDA s : s # "")

RECURSIVE Lookup(_, _)

\* lookup(), the same in both services.
Lookup(value, path) ==
    CASE path = <<>> -> value
      [] path # <<>> /\ value.kind = "object" ->
             IF Head(path) \in DOMAIN value.map
             THEN Lookup(value.map[Head(path)], Tail(path)) ELSE Missing
      [] path # <<>> /\ value.kind = "array" ->
             IF /\ Head(path) \in DOMAIN Index
                /\ Index[Head(path)] < Len(value.items)
             THEN Lookup(value.items[Index[Head(path)] + 1], Tail(path))
             ELSE Missing
      [] OTHER -> Missing

\* format_imds: the keys, those of objects with a slash.  Their order, in which
\* the two services differ (one sorts with the slash, the other without), is
\* left out.
FormatImds(value) ==
    [kind |-> "keys",
     keys |-> {[key |-> k, slash |-> value.map[k].kind = "object"] :
                  k \in DOMAIN value.map}]

Reply(status, format, body) ==
    [status |-> status, format |-> format, body |-> body]

\* render_raw_http
RenderRawHttp(ask, root) ==
    LET value == Lookup(root, SanitizePath(ask.path))
    IN  CASE ask.method # "GET" -> Reply(405, "text", Missing)
          [] ask.method = "GET" /\ value = Missing -> Reply(404, "text", Missing)
          [] ask.method = "GET" /\ value # Missing ->
                IF ask.json \/ value.kind \notin {"text", "object"}
                THEN Reply(200, "json", value)
                ELSE Reply(200, "text", IF value.kind = "text" THEN value
                                        ELSE FormatImds(value))

\* MmdsSocketService.response; what does not parse as a request is answered
\* with the whole document.
Response(ask, root) ==
    LET value == Lookup(root, SanitizePath(ask.path))
    IN  CASE ask.method = "" -> Reply(200, "json", root)
          [] ask.method \notin {"", "GET"} -> Reply(405, "text", Missing)
          [] ask.method = "GET" /\ value = Missing -> Reply(404, "text", Missing)
          [] ask.method = "GET" /\ value # Missing ->
                CASE ask.json -> Reply(200, "json", value)
                  [] ~ask.json /\ value.kind = "text" -> Reply(200, "text", value)
                  [] ~ask.json /\ value.kind = "object" ->
                         Reply(200, "text", FormatImds(value))
                  [] OTHER -> Reply(501, "text", Missing)

-----------------------------------------------------------------------------
(* Reference definitions: what stands at a path, without recursion over the *)
(* document being merged.                                                   *)

\* The lengths of the prefixes of path at which patch has something that is not
\* merged into what dst has there.
Settles(dst, patch, path) ==
    {n \in 0..Len(path) :
        LET p == Lookup(patch, SubSeq(path, 1, n))
            d == Lookup(dst, SubSeq(path, 1, n))
        IN  p # Missing /\ ~(p.kind = "object" /\ d.kind = "object")}

\* What is at path once patch is merged into dst, unless both have an object
\* there: at the first place that the patch settles, null stands for nothing and
\* anything else for itself.
MergedAt(dst, patch, path) ==
    LET settled == Settles(dst, patch, path)
        first == CHOOSE n \in settled : \A m \in settled : n <= m
    IN  CASE settled = {} -> Lookup(dst, path)
          [] settled # {} /\ first > 0
                          /\ Lookup(patch, SubSeq(path, 1, first)) = Null -> Missing
          [] OTHER -> Lookup(patch, path)
=============================================================================
