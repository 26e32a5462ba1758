-------------------------------- MODULE MCCaGen --------------------------------
(* Command lines of ca-gen.lua, of cron, and with background in between.   *)
EXTENDS CaGen

CONSTANTS a, b

Of(c, new, dh, certs) == [ca |-> c, new |-> new, dh |-> dh, certs |-> certs]

MCJobs ==
  {GenerateParams(FALSE, <<Of(a, TRUE, FALSE, 1)>>),
   GenerateParams(FALSE, <<Of(a, FALSE, FALSE, 1), Of(b, FALSE, FALSE, 0)>>),
   GenerateParams(TRUE, <<Of(b, FALSE, TRUE, 0), Of(a, FALSE, FALSE, 0)>>),
   <<Step("switch", a), Plain("background"), Plain("gen")>>,
   <<Step("drop_ca", a), Step("drop_ca", b)>>,
   <<Plain("refresh")>>,
   RevokeParams(a)}

(* The lines that ca-gen.lua makes for up to two CAs are as assumed.       *)
ASSUME LinesWellMade ==
  LET Requests == {Of(c, new, dh, certs) : c \in {a, b}, new \in BOOLEAN, dh \in BOOLEAN, certs \in 0..2}
  IN  \A background \in BOOLEAN : \A r1, r2 \in Requests :
        \A n \in 0..2 :
          LET line == GenerateParams(background, SubSeq(<<r1, r2>>, 1, n))
          IN  WellMade(line) /\ DropsFirst(line)

MCThere == {{a, b}, {b}}
=============================================================================
