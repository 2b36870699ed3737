--------------------------- MODULE MCReadEndpoints ---------------------------
EXTENDS ReadEndpoints, TLC

\* json.dumps makes a longer text of the first.
MCLegacyXml == [port |-> 58452, format |-> "xml", version |-> "legacy"]
MCModernJson == [port |-> 8080, format |-> "json", version |-> "modern"]
MCValues == {MCLegacyXml, MCModernJson}
MCDefault == MCLegacyXml
MCLength(v) == IF v = MCLegacyXml THEN 2 ELSE 1

MCListed == Resources
MCWatched == {"cost_centers"}
\* Nothing tells the threads apart.
MCSymmetry == Permutations(Savers)
=============================================================================
