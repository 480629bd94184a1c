---------------------------- MODULE DeviceConfig ----------------------------
(***************************************************************************)
(* The signed device_config and the API address inside it, as pure          *)
(* operators: how a payload is serialised for the signer and for the        *)
(* terminal (signer.py, service.py), which configurations of the signing    *)
(* key start the service (config.py) and how an operator's base URL is      *)
(* normalised.  A string is a sequence of the pieces the code looks for.    *)
(***************************************************************************)
EXTENDS Integers, SequencesExt

-----------------------------------------------------------------------------
(* Signing.                                                                 *)

\* The fields of the payload in the order _activation_result inserts them.
Payload(reactivated) ==
    <<"schema", "product_code", "tenant_slug", "tenant_base_url", "device_name",
      "hardware_uuid", "license_key", "valid_from", "valid_until", "issued_at">>
    \o IF reactivated THEN <<"reactivated">> ELSE <<>>

\* The same fields in alphabetical order.
Sorted ==
    <<"device_name", "hardware_uuid", "issued_at", "license_key", "product_code", "reactivated",
      "schema", "tenant_base_url", "tenant_slug", "valid_from", "valid_until">>

\* json.dumps of a dict: its fields in the order they were inserted, or sorted.
Dumps(payload, sortKeys) ==
    IF sortKeys THEN SelectSeq(Sorted, LAMBDA f : Contains(payload, f)) ELSE payload

Canonical(payload) == Dumps(payload, TRUE)

\* What LM_ED25519_PRIVATE_KEY_B64 may hold once stripped: nothing, a key, no key.
SigningKeys == {"", "good", "bad"}

\* Mutant: without a key the service starts and falls back to the digest.
Starts_Always(dev, key) == key # "bad"

\* The validator of Settings lets the service start.
Starts(dev, key) == IF key = "" THEN dev ELSE key = "good"

\* The kind of signature and the bytes it is over.
SignPayload(payload, dev, key) ==
    IF key = "" THEN [by |-> IF dev THEN "DEVCFG" ELSE "SigningKeyError", over |-> Canonical(payload)]
    ELSE [by |-> IF key = "good" THEN "ed25519" ELSE "SigningKeyError", over |-> Canonical(payload)]

\* Mutant: the envelope serialises the payload in insertion order.
Envelope_Unsorted(payload, dev, key) ==
    [payload |-> Dumps(payload, FALSE), signature |-> SignPayload(payload, dev, key)]

\* _device_config: sort_keys reaches into the embedded payload as well.
Envelope(payload, dev, key) ==
    [payload |-> Dumps(payload, TRUE), signature |-> SignPayload(payload, dev, key)]

-----------------------------------------------------------------------------
(* The tenant's API address.                                                *)

Pieces == {" ", "http:", "https:", "/", "host", "api/v1"}
Http == <<"http:", "/", "/">>
Https == <<"https:", "/", "/">>
ApiPath == <<"/", "api/v1">>
Refused == <<"ValidationError">>

\* str.rstrip and str.strip of one piece.
RStrip(u, piece) == SubSeq(u, 1, SelectLastInSeq(u, LAMBDA x : x # piece))
Strip(u, piece) == Reverse(RStrip(Reverse(RStrip(u, piece)), piece))
RemoveSuffix(u, s) == IF IsSuffix(s, u) THEN SubSeq(u, 1, Len(u) - Len(s)) ELSE u

HasScheme(u) == IsPrefix(Http, u) \/ IsPrefix(Https, u)

\* Mutant: the slashes before the API path are kept.
NormBaseUrl_OneStrip(raw, dev) ==
    LET u == Strip(raw, " ")
        v == IF HasScheme(u) THEN u ELSE Https \o u
    IN  IF u = <<>> THEN <<>>
        ELSE IF IsPrefix(Http, v) /\ ~dev THEN Refused
        ELSE RemoveSuffix(RStrip(v, "/"), ApiPath)

\* _norm_base_url; the empty sequence stands for None.
NormBaseUrl(raw, dev) ==
    LET u == Strip(raw, " ")
        v == IF HasScheme(u) THEN u ELSE Https \o u
    IN  IF u = <<>> THEN <<>>
        ELSE IF IsPrefix(Http, v) /\ ~dev THEN Refused
        ELSE RStrip(RemoveSuffix(RStrip(v, "/"), ApiPath), "/")
=============================================================================
