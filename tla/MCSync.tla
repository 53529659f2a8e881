------------------------------- MODULE MCSync -------------------------------
EXTENDS SyncValidation

\* A vertex stage before a fragment stage, and transfers in their own pipeline.
Pipelines == [s \in {"V", "F", "T"} |-> IF s = "F" THEN {"V"} ELSE {}]

R(s) == [stage |-> s, acc |-> "read"]
W(s) == [stage |-> s, acc |-> "write"]

SomeUsages == {R("V"), R("F"), R("T"), W("F"), W("T")}

B(src, sa, dst, da, t) ==
    [src |-> src, srcAccess |-> sa, dst |-> dst, dstAccess |-> da, transition |-> t]

Both == {"read", "write"}

SomeBarriers ==
    {{B({"T"}, {"write"}, {"V"}, {"read"}, FALSE)},
     {B({"T"}, {"write"}, {"T"}, Both, FALSE)},
     {B({"V"}, {}, {"F"}, {}, FALSE)},
     {B({"F"}, {"write"}, {"T"}, {"write"}, FALSE)},
     {B({"V"}, {}, {"T"}, {"write"}, TRUE)},
     {B({"T"}, {"write"}, {"F"}, {"read"}, TRUE)},
     {B({"T"}, {"write"}, {"V"}, {"read"}, FALSE), B({"V"}, {}, {"T"}, {}, FALSE)}}

Lists == {<<s>> : s \in Secondary} \cup {<<s, s>> : s \in Secondary}

OneByOne == {<<s>> : s \in Secondary}
=============================================================================
