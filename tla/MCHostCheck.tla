----------------------------- MODULE MCHostCheck -----------------------------
(* The constants and the tables of pidctl.c and of accelmgr.c.             *)
EXTENDS HostCheck

Table(s) == [c \in 0 .. Len(s) - 1 |-> s[c + 1]]

MCkp   == Table(<<80, 48, 128, 32>>)
MCki   == Table(<<4, 8, 2, 12>>)
MCkd   == Table(<<24, 8, 48, 0>>)
MClag  == Table(<<48, 24, 96, 12>>)
MCgain == Table(<<1024, 896, 1152, 768>>)
MCspan == [c \in Channel |-> 4096 - 3 * c]

MCprofile == Table(<<512, 2048, 2048, 3600, 1200, 1200, 300, 2800>>)
MCload    == Table(<<0, 12, 40, 8, -20, 60, 4, -8>>)
MCnoise   == Table(<<1, -2, 0, 3, -1, 2, -3, 1, 0, -1, 2, -2, 3, 0, -3, 1>>)

MCPidExpected == [hi |-> 46563, lo |-> 35817]   \* 0xb5e38be9

-----------------------------------------------------------------------------
MCJob == {[chan |-> f % NCHAN, nsamp |-> 32 + ((f * 13) % 64), seq |-> f] :
            f \in 0 .. FRAMES - 1}

MCResults == <<
    12,   31,   58,   94,  120,  103,   71,   40,
   210,  880, 1940, 3080, 3600, 3310, 2440, 1290,
    95,  240,  470,  690,  800,  745,  560,  320,
   130,  420,  890, 1310, 1500, 1385, 1020,  580,
    18,   47,   88,  137,  180,  158,  112,   63,
   260, 1010, 2180, 3390, 3900, 3620, 2700, 1450,
   160,  530, 1130, 1720, 2000, 1840, 1360,  770,
    70,  185,  355,  520,  600,  555,  415,  235 >>

MCAccelExpected == [hi |-> 7286, lo |-> 43159]   \* 0x1c76a897
=============================================================================
