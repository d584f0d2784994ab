------------------------------- MODULE MCBoot -------------------------------
(* Boot for TLC: configurations on both sides of every check.              *)
EXTENDS Boot

Entry(name, listen) == [name |-> name, listen |-> listen, sound |-> TRUE]

MCPgs == {<<>>,
          <<Entry("rw", 5432)>>,
          <<Entry("rw", 5432), Entry("ro", 6000)>>,
          <<Entry("rw", 5432), Entry("ro", 5432)>>,   \* one port twice
          <<Entry("rw", 5432), Entry("rw", 5433)>>,   \* one name twice
          <<Entry("rw", 6001)>>,                      \* just out of range
          <<[Entry("rw", 5432) EXCEPT !.sound = FALSE]>>}

MCTcps == {<<>>,
           <<Entry("mts", 9001), Entry("feed", 9999)>>,
           <<Entry("mts", 9001), Entry("feed", 9001)>>,
           <<Entry("mts", 8080)>>}                    \* out of range

MCConfigs == [pgs : MCPgs, tcps : MCTcps,
              http : {0, -1, 8080, 9001}, debug : {0, 80, 53, 5432, 8080, 70000, -1},
              flyHost : BOOLEAN, resolver : BOOLEAN, ca : {"missing", "bad", "good"}]

MCForeign == {{}, {<<"tcp", 80>>}, {<<"tcp", 53>>}, {<<"udp", 53>>}, {<<"tcp", 9001>>, <<"tcp", 6000>>}}
=============================================================================
