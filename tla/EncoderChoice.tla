--------------------------- MODULE EncoderChoice ----------------------------
(***************************************************************************)
(* Which H.264 encoder okvm-video gets on a machine.  A machine is what    *)
(* the constructors meet: a D3D11 device or not (d3d), the hardware        *)
(* transforms MFTEnumEx lists, in order (hw), and whether the software     *)
(* transform of Microsoft (sw) and openh264 (cisco) can be set up.  A      *)
(* listed transform is async or not and activates or not; works names the  *)
(* set-ups (types, D3D manager, streaming) it gets through: the one of the *)
(* asynchronous encoder, the one of the synchronous encoder, or both.      *)
(***************************************************************************)
EXTENDS Integers, Sequences

NoEncoder == "none"
Backends == {"openh264", "mediafoundation"}

\* The first candidate that will do is taken; when it fails later, no other is tried.
First(candidates) == {i \in candidates : \A j \in candidates : i <= j}

\* setup_async_mft takes the first transform that activates.
Activates(list) == {i \in DOMAIN list : list[i].activates}
SetUp(list) == \E i \in First(Activates(list)) : "async" \in list[i].works

\* create_d3d11_device and create_dxgi_manager.
Device(m) == m.d3d

\* MfH264AsyncEncoder::try_new.
TryNewAsync(m) == Device(m) /\ SetUp(m.hw)

\* MfH264Encoder::try_new_hardware takes the first transform that is not async.
Sync(list) == {i \in DOMAIN list : ~list[i].async}
TryNewHardware(m) ==
  Device(m) /\ \E i \in First(Sync(m.hw)) : m.hw[i].activates /\ "sync" \in m.hw[i].works

\* MfH264Encoder::new.
NewSoftware(m) == m.sw

\* MfH264Encoder::new_best: the hardware, else the software transform.
NewBest(m) == IF TryNewHardware(m) \/ NewSoftware(m) THEN "sync" ELSE NoEncoder

\* H264Encoder::new.
Cisco(m) == IF m.cisco THEN "openh264" ELSE NoEncoder

\* run_capture_thread makes an encoder and drops it, to know what codec to announce.
Announced(backend, m) ==
  IF (IF backend = "openh264" THEN Cisco(m) ELSE NewBest(m)) # NoEncoder
  THEN "coded" ELSE "plain"

\* FrameEncoderHandler::new makes the encoder that is used, when H.264 was announced.
Chosen(backend, codec, m) ==
  IF codec = "plain" THEN NoEncoder
  ELSE IF backend = "openh264" THEN Cisco(m)
  ELSE IF TryNewAsync(m) THEN "async" ELSE NewBest(m)
=============================================================================
