--------------------------- MODULE MCDeviceRegistry ---------------------------
(* DeviceRegistry on instances small enough for TLC.                          *)
EXTENDS DeviceRegistry, TLC

\* Ids, installations and keys are only compared for equality.
RegistrySymmetry ==
    Permutations(Devices) \cup Permutations(Clients) \cup Permutations(Keys) \cup Permutations(Operations)
==============================================================================
