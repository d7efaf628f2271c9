SPECIFICATION SelectionSpec
INVARIANTS VerifiedIsRetained ReviewIsDecisive
