------------------------------- MODULE Generated -------------------------------
(* What the generators write: the wire format and the package. The two share   *)
(* nothing, so each behaviour is of one.                                       *)
EXTENDS WireFormat, Package

VARIABLE generator

generatedVars == <<generator, vars, packageVars>>

\* The part that is not looked at stands still, at one of its beginnings.
GeneratedInit ==
    /\ generator \in {"wire", "package"} /\ Init /\ PackageInit
    /\ generator = "wire" => built = BuiltWith({})
    /\ generator = "package" => spec = (CHOOSE s \in Specs : TRUE) /\ ares = CHOOSE t \in spec.trees : TRUE

GeneratedNext ==
    \/ generator = "wire" /\ Next /\ UNCHANGED <<generator, packageVars>>
    \/ generator = "package" /\ PackageNext /\ UNCHANGED <<generator, vars>>

GeneratedSpec == GeneratedInit /\ [][GeneratedNext]_generatedVars

\* The type invariants of both.
TypesOK == TypeOK /\ PackageTypeOK
================================================================================
