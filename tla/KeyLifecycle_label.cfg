\* Three keys compete for one label; a key may be extended after its expiry.
SPECIFICATION Spec
CONSTANTS
  KeyIds = {k1, k2, k3}
  Labels = {l}
  NoLabel = none
  Ttls <- SomeTtls
  AllowNonExpiring = TRUE
  MaxIdleMs = 1
  Never = 99
  MaxTime = 3
  MaxExtensions = 2
SYMMETRY KeySymmetry
INVARIANT LabelIsReserved
