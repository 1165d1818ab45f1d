---------------------------- MODULE MCAlgorithms ----------------------------
(***************************************************************************)
(* The pure algorithms, each called once with every input of a small set:  *)
(* job is the call, <<algorithm, argument>>.                               *)
(***************************************************************************)
EXTENDS BtRegs, DigestRounds, Redundancy, Feasibility

VARIABLE job

Call(what, inputs) ==
    /\ job = <<"idle">>
    /\ \E in \in inputs : job' = <<what, in>>

(* Services in the order of their periods; ex0, ex1, ex3 and ex4 are among *)
(* them (ex2 has periods too long for the arithmetic of the bound).        *)
ServiceSets ==
    {<<p, c>> \in {<<2, 10, 15>>, <<2, 5, 7>>, <<3, 5, 15>>, <<2, 4, 16>>, <<3, 4, 6>>,
                   <<4, 4, 6>>, <<4, 6, 9>>, <<2, 3, 12>>, <<2, 4, 6, 12>>}
                  \X ([1 .. 3 -> 1 .. 4] \union [1 .. 4 -> 1 .. 3]) : Len(p) = Len(c)}

Init == job = <<"idle">>

Next ==
    \/ Call("window", {"320x240", "80x60", "640x480"} \X BOOLEAN)
    \/ Call("level", -2 .. 257)
    \/ Call("bus", Buses)
    \/ Call("routing", {"82371SB", "82371AB", "82801AA"} \X [Pins -> RoutingBytes])
    \/ Call("bar", (4 .. 29) \X (0 .. 15))
    \/ Call("chunks", {0, 1, 9, 55, 56, 63, 64, 65} \X {0, 1, 63, 64, 119, 128}
                       \X {0, 1, 7, 8, 111, 112, 128})
    \/ Call("hmac", {0, 1, 63, 64, 65, 130} \X {0, 1, 55, 56, 64})
    \/ Call("file", {0, 1023, 1024, 1025, 2048, 3000})
    \/ Call("selftest", {"sha1", "sha2", "md5", "crc"})
    \/ Call("crc", {CRC_CCITT, CRC16, CRC32} \X {0, 1, 127, 128, 255} \X {0, 1, 128, 170, 255})
    \/ Call("ecc", (SUBSET (1 .. 8)) \X (0 .. 12) \X (0 .. 12))
    \/ Call("stripe", {0, 9, 20} \X (0 .. 17) \X (0 .. 5))
    \/ Call("rebuild", 0 .. 15)
    \/ Call("feasible", ServiceSets)
    \/ Call("lcm", (1 .. 8) \X (1 .. 6))

Spec == Init /\ [][Next]_job

Holds(what, P(_)) == job[1] = what => P(job[2])

---------------------------------------------------------------------------
(* The values the Bt878 driver computes: the line instructions move as     *)
(* many bytes as the window has in a line; brightness and contrast levels  *)
(* stay apart; initializePCI_DEV reports exactly the bridges and cards of  *)
(* the bus; after the routing helpers pin A reaches BT878INT; and the size *)
(* of a base address register is found whatever its flags are.             *)
RegistersExact ==
    /\ Holds("window", LAMBDA x : BtLineMatchesWindow(x[1], x[2]))
    /\ Holds("level", BtLevels)
    /\ Holds("bus", PciDiscovery)
    /\ Holds("routing", LAMBDA x : PciRoutingRepaired(x[1], x[2]))
    /\ Holds("bar", LAMBDA x : PciBarSize(x[1], x[2]))

(* The digests of example-3 do not depend on how a message is cut into     *)
(* calls or reads of a file, the HMAC is the nested digest for short and   *)
(* long keys, and the compression functions give the vectors of the self   *)
(* tests.                                                                  *)
DigestsExact ==
    /\ Holds("chunks", LAMBDA x : Chunked(x[1], x[2], x[3]))
    /\ Holds("hmac", LAMBDA x : HmacNested(x[1], x[2]))
    /\ Holds("file", FileDigest)
    /\ Holds("selftest", LAMBDA x : CASE x = "sha1" -> sha1_self_test
                                      [] x = "sha2" -> sha2_vectors
                                      [] x = "md5"  -> md5_do_test
                                      [] x = "crc"  -> crcCheckValues)
    /\ Holds("crc", LAMBDA x : CrcTableAgrees(x[1], x[2], x[3]))

(* What is redundant restores what is lost.  read_byte locates every       *)
(* single error, in a data bit, a check bit or the parity bit, and tells   *)
(* every double error from it.  stripeFile and restoreFile give the file   *)
(* back whatever its length, the chunk that was lost and what an earlier   *)
(* run left in the chunk files; a rebuilt sector equals the lost one.      *)
RedundancyRestores ==
    /\ Holds("ecc", LAMBDA x : EccDetects(x[1], x[2], x[3]))
    /\ Holds("stripe", LAMBDA x : RestoreExact(x[1], x[2], x[3]))
    /\ Holds("rebuild", RebuildEqual)

(* The completion time and the scheduling point test accept exactly the    *)
(* service sets whose schedule meets every deadline (the first never       *)
(* returns on some overloaded sets), the least upper bound accepts no      *)
(* other, and the loops of lcmc.c give the least common multiple.          *)
TestsExact ==
    /\ Holds("feasible", LAMBDA x : FeasibilityExact(x[1], x[2]))
    /\ Holds("lcm", LAMBDA x : LcmExact(x[1], x[2]))

=============================================================================
