----------------------------- MODULE D3DDevices -----------------------------
(***************************************************************************)
(* The devices that the decoder and the renderer of a viewer share, as     *)
(* reference counts: mem.com[d] counts the references to device d, and     *)
(* mem.av[d] those to FFmpeg's AVHWDeviceContext around it, which has one  *)
(* reference to the device for as long as it lives. A device is of D3D11,  *)
(* or of another hardware decoder (DXVA2, CUDA, QSV), which only FFmpeg    *)
(* refers to. COM and libavutil are external.                              *)
(***************************************************************************)
EXTENDS Naturals

CONSTANTS
  Devices,       \* bound: as many devices as there are members
  D3D11Devices,  \* those of D3D11
  NoDevice

ASSUME DeviceAssumption == NoDevice \notin Devices /\ D3D11Devices \subseteq Devices

VARIABLE mem

DevicesInit == mem = [av |-> [d \in Devices |-> 0], com |-> [d \in Devices |-> 0]]

Fresh == {d \in Devices : mem.com[d] = 0}

(* av_hwdevice_ctx_create: the device and the context around it.           *)
AvCreate(m, d) == [m EXCEPT !.av[d] = 1, !.com[d] = 1]
AvRef(m, d)    == IF d = NoDevice THEN m ELSE [m EXCEPT !.av[d] = @ + 1]
AvUnref(m, d)  == IF d = NoDevice THEN m
                  ELSE [m EXCEPT !.av[d] = @ - 1,
                                 !.com[d] = IF m.av[d] = 1 THEN @ - 1 ELSE @]

ComRef(m, d)   == IF d = NoDevice THEN m ELSE [m EXCEPT !.com[d] = @ + 1]
ComUnref(m, d) == IF d = NoDevice THEN m ELSE [m EXCEPT !.com[d] = @ - 1]
=============================================================================
