----------------------------- MODULE SimpleSpi ------------------------------
(***************************************************************************)
(* simple_spi (Lab14), a program that reads a light sensor through the     *)
(* kernel's own driver spidev: one transfer of three bytes, of whose       *)
(* answer twelve bits are the sample.  No error but that of open ends it.  *)
(***************************************************************************)
EXTENDS LabModule

CONSTANTS Byte,     \* what a byte may be that nobody has set
          Sample    \* what the converter may have measured

ASSUME SpiAssumption == Byte \subseteq 0..255 /\ Sample \subseteq 0..4095

VARIABLES
    spi,            \* where main is
    sample,         \* what the converter has measured
    obeyed,         \* every ioctl so far has succeeded
    rbuf,           \* the second and third byte of its answer
    light_value

spidev == <<spi, sample, obeyed, rbuf, light_value>>

-----------------------------------------------------------------------------
SpiInit ==
    /\ spi = "open" /\ obeyed = TRUE /\ light_value = 0
    /\ IF driver = "spidev" THEN sample \in Sample /\ rbuf \in Byte \X Byte
       ELSE sample = 0 /\ rbuf = <<0, 0>>

Main(from, to) ==
    /\ spi = from /\ spi' = to
    /\ UNCHANGED <<lab, sample>>

OpenSpi ==
    /\ Main("open", IF stage = "live" THEN "setup" ELSE "failed")
    /\ UNCHANGED <<obeyed, rbuf, light_value>>

(* Mode, bits and speed; a failure is printed. *)
setup_spi ==
    /\ Main("setup", "transfer")
    /\ obeyed' \in BOOLEAN
    /\ UNCHANGED <<rbuf, light_value>>

(* Above the sample's twelve bits the converter sends what it likes, and   *)
(* everywhere if it is not set up; an ioctl that fails leaves in rbuf what *)
(* was on the stack.                                                       *)
transfer_spi ==
    /\ Main("transfer", "print")
    /\ \/ /\ \E b, c \in Byte :
                rbuf' = IF obeyed
                        THEN <<16 * (b \div 16) + sample \div 256, sample % 256>>
                        ELSE <<b, c>>
          /\ UNCHANGED obeyed
       \/ obeyed' = FALSE /\ UNCHANGED rbuf
    /\ UNCHANGED light_value

(* The bits above the sample's twelve are masked out.                      *)
Twelve == (rbuf[1] % 16) * 256 + rbuf[2]

PrintLight ==
    /\ Main("print", "done")
    /\ light_value' = Twelve
    /\ UNCHANGED <<obeyed, rbuf>>

(* The kernel loads spidev itself. *)
Probe == Calls("probe") /\ UNCHANGED <<pins, interrupt, bug, spidev>>

SpiNext ==
    /\ driver = "spidev"
    /\ Probe \/ OpenSpi \/ setup_spi \/ transfer_spi \/ PrintLight

SpiTypeOK ==
    /\ spi \in {"open", "failed", "setup", "transfer", "print", "done"}
    /\ sample \in 0..4095 /\ obeyed \in BOOLEAN
    /\ rbuf \in (0..255) \X (0..255) /\ light_value \in Nat
=============================================================================
