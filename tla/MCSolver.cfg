CONSTANTS
    WAD = 4
    Requests <- MCRequests
SPECIFICATION Spec
INVARIANTS TypeOK CertificateIsWhole RouteIsEligible BestExecution
PROPERTIES EachTurnNarrows
