\* Three controllers, calls that last longer than the lease, lost answers.
SPECIFICATION LeaseSpec
CONSTANTS
  Owners = {o1, o2, o3}
  NoOwner = NoOwner
  Ttl = 2
  MaxTime = 4
SYMMETRY Symmetry
INVARIANT OneHolder
INVARIANT HolderInTable
