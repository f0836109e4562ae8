----------------------------- MODULE Quantities -----------------------------
(***************************************************************************)
(* Resource quantities, and the check of requests against limits.  A       *)
(* quantity is written as a number, here in thousandths, and a suffix;     *)
(* << >> is a quantity that is not given.  The suffixes above k and Mi     *)
(* differ in their factor only and are left out.                           *)
(***************************************************************************)
EXTENDS Naturals, Sequences

NoSuffix == ""
DecimalFactor == [s \in {"m", NoSuffix, "k"} |->
                    IF s = "m" THEN 1 ELSE IF s = "k" THEN 1000000 ELSE 1000]
BinaryFactor == [s \in {NoSuffix, "Ki", "Mi"} |->
                    IF s = "Ki" THEN 1024 ELSE IF s = "Mi" THEN 1024 * 1024 ELSE 1]

Resource == {"cpu", "memory", "ephemeralStorage"}
Factor(r) == IF r = "cpu" THEN DecimalFactor ELSE BinaryFactor

(* DecimalUnit and BinaryUnit: the regular expressions admit no sign, and  *)
(* only the suffixes of their kind.                                        *)
WellFormed(r, q) == q.suffix \in DOMAIN Factor(r)

(* What a well-formed quantity is worth, exactly.                          *)
Worth(r, q) == q.thousandths * Factor(r)[q.suffix]

(* ConvertDecimalUnit and ConvertBinaryUnit multiply floats.  They keep    *)
(* the order of different values of fewer than fifteen digits.  Equal      *)
(* values with different decimal suffixes may differ by a rounding (9m     *)
(* exceeds 0.009, 500m does not exceed 0.5); powers of two never round.    *)
Exceeds(r, a, b) ==
  IF Worth(r, a) # Worth(r, b) THEN {Worth(r, a) > Worth(r, b)}
  ELSE IF r = "cpu" /\ a.suffix # b.suffix THEN BOOLEAN ELSE {FALSE}

(* Deviation for ServerAgrees: the request is compared as it is written.   *)
VerdictsAsWritten(r, request, limit) ==
  IF \E q \in {request, limit} : q # << >> /\ ~WellFormed(r, q[1]) THEN {FALSE}
  ELSE IF request = << >> \/ limit = << >> THEN {TRUE}
  ELSE {request[1].thousandths <= limit[1].thousandths}

(* The verdicts on the request and the limit of one resource.              *)
Verdicts(r, request, limit) ==
  IF \E q \in {request, limit} : q # << >> /\ ~WellFormed(r, q[1]) THEN {FALSE}
  ELSE IF request = << >> \/ limit = << >> THEN {TRUE}
  ELSE {~x : x \in Exceeds(r, request[1], limit[1])}

(* ResourceRequirements: every resource must pass.                         *)
ResourceVerdicts(requests, limits) ==
  {\A r \in Resource : v[r] :
     v \in {f \in [Resource -> BOOLEAN] :
              \A r \in Resource : f[r] \in Verdicts(r, requests[r], limits[r])}}
============================================================================
